---- MODULE Spec2Model ----
(***************************************************************************)
(* A model of the dalchemy ORM (orm/base.py, orm/queryset.py) with the     *)
(* entities of tests/models.py: the relational store, the write-cache and  *)
(* read-cache tiers kept in the key-value store, and the in-memory records *)
(* the caller holds.                                                       *)
(*                                                                         *)
(* Time: every operation reads the clock once (datetime.now) and the clock *)
(* advances by one between operations; 0 stands for None in a date/time    *)
(* field.  Text: the key-value store hands every field value back as text  *)
(* (the connection is opened with encoding="utf-8"), so numbers are kept   *)
(* in it as their decimal text.                                            *)
(***************************************************************************)
EXTENDS Integers, Sequences, FiniteSets, TLC

\* Bounds of the model.
MaxClock == 3
MaxId == 2
MaxBulk == 2

Names == {"Abiola", "Shola"}
Emails == {"j@o.com", "k@o.com"}

VARIABLES
    users,       \* the rows of table "users": a function id -> row
    nextId,      \* the next identity the store assigns in table "users"
    profiles,    \* the rows of table "profiles" (user_id references users)
    nextProfile, \* the next identity the store assigns in table "profiles"
    phones,      \* the rows of table "phone_numbers" (user_id references users)
    nextPhone,   \* the next identity the store assigns in "phone_numbers"
    qs,          \* User.objects.queryset: the filter context left pending
    redis,       \* the key-value store of both cache tiers: key -> hash (text)
    rec,         \* the in-memory User record the caller holds (NoRec: none)
    origin,      \* where rec came from: "none", "new", "cache", "db", "create"
    info,        \* the in-memory UserInfo instance the caller holds
    now,         \* the clock
    last,        \* the operation that ran last and how it ended
    tasks        \* the concurrent quick_create calls: where each one stands

vars ==
    <<users, nextId, profiles, nextProfile, phones, nextPhone, qs, redis,
      rec, origin, info, now, last, tasks>>

\* The rows of the tables that reference "users", and their identities.
related == <<profiles, nextProfile, phones, nextPhone>>

\* The variables the operations on the User entity and the write-cache tier
\* (Spec) never touch.
notInSpec == <<info, tasks>>

----------------------------------------------------------------------------
(* Field metadata of tests/models.py: class User.                          *)

UserFields == {"id", "full_name", "email", "is_active", "created", "modified"}

\* The declared type of each field of User ("datetime": datetime.datetime).
UserFieldType ==
    [id |-> "int", full_name |-> "str", email |-> "str",
     is_active |-> "bool", created |-> "datetime", modified |-> "datetime"]

\* The class-level defaults of User (0: None; there is none for the two
\* required fields, which every constructor call of the model passes).
UserFieldDefault ==
    [id |-> 0, full_name |-> "", email |-> "",
     is_active |-> TRUE, created |-> 0, modified |-> 0]

\* User.Config.table_config, the entries update_passed_values reads:
\* hasDefault/onupdate say whether the key is there (and truthy), callable
\* whether the default is a function (datetime.now).
user_table_config ==
    [id        |-> [hasDefault |-> FALSE, callable |-> FALSE, onupdate |-> FALSE],
     full_name |-> [hasDefault |-> FALSE, callable |-> FALSE, onupdate |-> FALSE],
     email     |-> [hasDefault |-> FALSE, callable |-> FALSE, onupdate |-> FALSE],
     is_active |-> [hasDefault |-> TRUE,  callable |-> FALSE, onupdate |-> FALSE],
     created   |-> [hasDefault |-> TRUE,  callable |-> TRUE,  onupdate |-> FALSE],
     modified  |-> [hasDefault |-> FALSE, callable |-> FALSE, onupdate |-> TRUE]]

\* The constant default of a field whose default is not callable.
user_config_default == [is_active |-> TRUE]

UsersTable == "users"

\* No in-memory record.
NoRec ==
    [id |-> -1, full_name |-> "", email |-> "",
     is_active |-> FALSE, created |-> 0, modified |-> 0]

\* tests/models.py: class UserInfo(CacheBase), with CacheBase.from_db.
InfoFields ==
    {"full_name", "email", "is_active", "addresses", "numbers", "from_db"}

InfoFieldType ==
    [full_name |-> "str", email |-> "str", is_active |-> "bool",
     addresses |-> "list", numbers |-> "list", from_db |-> "bool"]

\* UserInfo.Config.cache_key
InfoCacheKey == "user_info"

\* No in-memory UserInfo instance.
NoInfo ==
    [full_name |-> "", email |-> "", is_active |-> FALSE,
     addresses |-> <<>>, numbers |-> <<>>, from_db |-> FALSE]

\* The data create_test_data gives the profile and the phone number: the
\* addresses (a list, one address written by its state) and the number.
TestAddresses == <<"Lagos">>
TestNumber == "+2347833224323"

----------------------------------------------------------------------------
(* Python values.                                                          *)

\* bool(v) of a value of field type t.
Truthy(t, v) ==
    CASE t = "bool" -> v = TRUE
      [] t = "str" -> v # ""
      [] OTHER -> v # 0

\* {**a, **b}
Merge(a, b) ==
    [k \in (DOMAIN a) \cup (DOMAIN b) |-> IF k \in DOMAIN b THEN b[k] ELSE a[k]]

\* d.pop(k, None) for its effect on d.
Pop(d, k) == [x \in (DOMAIN d) \ {k} |-> d[x]]

\* The decimal text of a number, and float(text) / int(text).
Digits == <<"1", "2", "3", "4", "5", "6", "7", "8", "9">>

NumToText(n) == IF n = 0 THEN "0" ELSE Digits[n]

TextToNum(s) ==
    IF s = "0" THEN 0 ELSE CHOOSE n \in 1..Len(Digits) : Digits[n] = s

\* json.dumps(list) and json.loads(text): the text is written as the
\* sequence of its tokens, the brackets and the elements between them.
JsonDumps(list) == <<"[">> \o list \o <<"]">>

JsonLoads(text) == SubSeq(text, 2, Len(text) - 1)

----------------------------------------------------------------------------
(* orm/base.py: Base (the parts the User entity exercises).                *)

\* passed_value == False, for a value of field type t (None == False is
\* False; 0 == False is True).
PyEqFalse(t, v) ==
    CASE t = "bool" -> v = FALSE
      [] t = "int" -> v = 0
      [] OTHER -> FALSE

\* clean_values.get(o) is not None: the key is there and, for a date/time
\* field, is not None.
Passed(clean_values, o) ==
    /\ o \in DOMAIN clean_values
    /\ (UserFieldType[o] = "datetime" => clean_values[o] # 0)

\* A variant of get_default_values that calls a callable default whatever
\* was passed.
get_default_values_regenerates(o, clean_values, clock) ==
    LET cfg == user_table_config[o]
        t == UserFieldType[o]
        has == Passed(clean_values, o)
        truthy == has /\ Truthy(t, clean_values[o])
    IN  IF cfg.onupdate \/ cfg.callable THEN clock
        ELSE IF has /\ PyEqFalse(t, clean_values[o]) THEN clean_values[o]
        ELSE IF truthy THEN clean_values[o]
        ELSE user_config_default[o]

\* get_default_values(o, passed_value) inside update_passed_values; clock is
\* what datetime.now returns.
get_default_values(o, clean_values, clock) ==
    LET cfg == user_table_config[o]
        t == UserFieldType[o]
        has == Passed(clean_values, o)
        truthy == has /\ Truthy(t, clean_values[o])
    IN  IF cfg.onupdate THEN clock
        ELSE IF cfg.callable
             THEN (IF truthy THEN clean_values[o] ELSE clock)
        ELSE IF has /\ PyEqFalse(t, clean_values[o]) THEN clean_values[o]
        ELSE IF truthy THEN clean_values[o]
        ELSE user_config_default[o]

\* The keys of table_config with a default or an onupdate entry.
DefaultedFields ==
    {o \in DOMAIN user_table_config :
        user_table_config[o].hasDefault \/ user_table_config[o].onupdate}

update_passed_values(clean_values, clock) ==
    [o \in DefaultedFields |-> get_default_values(o, clean_values, clock)]

\* cls(**kwargs): pydantic fills the fields that were not passed with the
\* class defaults.
klass(kwargs) ==
    [f \in UserFields |->
        IF f \in DOMAIN kwargs THEN kwargs[f] ELSE UserFieldDefault[f]]

\* build_db_save_params: User has no relationship field, every value is
\* copied under its own name.
build_db_save_params(self) == [f \in UserFields |-> self[f]]

----------------------------------------------------------------------------
(* The relational store: table "users" (primary key id, email unique).     *)

UniqueEmail(rows, email, exceptId) ==
    \A i \in DOMAIN rows : i # exceptId => rows[i].email # email

PutRow(rows, i, row) ==
    [j \in (DOMAIN rows) \cup {i} |-> IF j = i THEN row ELSE rows[j]]

\* What database.execute hands back for an UPDATE, by driver: nothing
\* (None, written 0) or the number of rows matched.
DriverReturns == {"none", "rowcount"}

UpdateReturn(driverRet, matched) ==
    IF driverRet = "rowcount" THEN matched ELSE 0

\* A variant of execute_save whose UPDATE has no WHERE clause.
execute_save_no_where(rows, nid, values, _id, driverRet) ==
    IF _id = 0
    THEN IF UniqueEmail(rows, values.email, 0)
         THEN [ok |-> TRUE, result |-> nid, nextId |-> nid + 1,
               rows |-> PutRow(rows, nid, Merge(values, [id |-> nid]))]
         ELSE [ok |-> FALSE, result |-> 0, nextId |-> nid + 1, rows |-> rows]
    ELSE [ok |-> TRUE,
          result |-> UpdateReturn(driverRet, Cardinality(DOMAIN rows)),
          nextId |-> nid,
          rows |-> [i \in DOMAIN rows |-> Merge(values, [id |-> i])]]

\* database.execute of the statement save_model builds: an INSERT of values
\* (without id) when _id is 0, else UPDATE ... SET values WHERE id = _id.
\* The identity sequence advances at every INSERT, also at one the unique
\* index on email then rejects.
execute_save(rows, nid, values, _id, driverRet) ==
    IF _id = 0
    THEN IF UniqueEmail(rows, values.email, 0)
         THEN [ok |-> TRUE, result |-> nid, nextId |-> nid + 1,
               rows |-> PutRow(rows, nid, Merge(values, [id |-> nid]))]
         ELSE [ok |-> FALSE, result |-> 0, nextId |-> nid + 1, rows |-> rows]
    ELSE IF _id \notin DOMAIN rows
         THEN [ok |-> TRUE, result |-> UpdateReturn(driverRet, 0),
               nextId |-> nid, rows |-> rows]
    ELSE IF UniqueEmail(rows, values.email, _id)
         THEN [ok |-> TRUE, result |-> UpdateReturn(driverRet, 1),
               nextId |-> nid, rows |-> PutRow(rows, _id, values)]
         ELSE [ok |-> FALSE, result |-> 0, nextId |-> nid, rows |-> rows]

----------------------------------------------------------------------------
(* orm/queryset.py: the query set of an entity (QuerySet) over its table.  *)
(* A filter context is a sequence of clauses field = value, all of which a *)
(* selected row satisfies.                                                  *)

\* self.queryset is None: nothing pending, the plain select of the table.
NoFilter == <<>>

\* QuerySet.filter(field=value): the context it puts in place of whatever
\* was pending.
filter(field, value) == <<[field |-> field, value |-> value]>>

Matches(row, ctx) == \A i \in DOMAIN ctx : row[ctx[i].field] = ctx[i].value

\* The identities of the rows a context selects.
Selected(rows, ctx) == {i \in DOMAIN rows : Matches(rows[i], ctx)}

\* QuerySet.get(**kwargs): the rows fetch_one may return, selected by the
\* pending context AND the keyword clauses.
get(rows, ctx, kwargs) == Selected(rows, ctx \o kwargs)

\* What the store driver binds for a column that has an onupdate callable
\* and is not among the values of an UPDATE the query set issues: the
\* column is left out of the statement, bound to NULL, or bound to the
\* callable's value.
OnUpdateBinds == {"kept", "null", "now"}

OnUpdateValues(values, bind, clock) ==
    LET fs == {f \in UserFields \ DOMAIN values : user_table_config[f].onupdate}
    IN  CASE bind = "kept" -> values
          [] bind = "null" -> Merge(values, [f \in fs |-> 0])
          [] OTHER -> Merge(values, [f \in fs |-> clock])

\* QuerySet.update(**kwargs): UPDATE table SET kwargs WHERE the pending
\* context holds.
update(rows, ctx, values) ==
    [i \in DOMAIN rows |->
        IF Matches(rows[i], ctx) THEN Merge(rows[i], values) ELSE rows[i]]

\* A variant of delete that takes no notice of the pending context.
delete_every_row(rows, ctx) == <<>>

\* QuerySet.delete(): DELETE FROM table WHERE id IN (the identities the
\* pending context selects).
delete(rows, ctx) == [i \in (DOMAIN rows) \ Selected(rows, ctx) |-> rows[i]]

\* create_db_column, foreign key: ON DELETE CASCADE.  The rows of a table
\* referencing "users" that remain once users holds rows.
cascade(refs, rows) ==
    [i \in {j \in DOMAIN refs : refs[j].user_id \in DOMAIN rows} |-> refs[i]]

----------------------------------------------------------------------------
(* orm/queryset.py: the write-cache tier (QuerySetMixin, QuerySet).        *)

\* QuerySet.cache_key, of a record (its cache_field, "email") or of a text.
cache_key(table_name, value) == <<table_name, ":", value>>

\* QuerySetMixin.obj_to_redis_dict: bool -> int, date/time -> timestamp,
\* every other field as it is.
obj_to_redis_dict(obj) ==
    [f \in UserFields |->
        IF UserFieldType[f] = "bool" THEN (IF obj[f] THEN 1 ELSE 0)
        ELSE obj[f]]

\* The fields whose value reaches hmset_dict as a number (int(bool) and
\* timestamps); the value of every other field reaches it as text.
RedisNumber == {"id", "is_active", "created", "modified", "from_db"}

\* The key-value store keeps text: what hmset_dict sends for each value.
RedisText(d) ==
    [f \in DOMAIN d |-> IF f \in RedisNumber THEN NumToText(d[f]) ELSE d[f]]

\* connection.hmset_dict(key, d): sets the fields of d in the hash at key
\* (fields the hash has and d has not are kept).
hmset_dict(cache, key, d) ==
    LET old == IF key \in DOMAIN cache THEN cache[key] ELSE <<>>
    IN  [k \in (DOMAIN cache) \cup {key} |->
            IF k = key THEN Merge(old, RedisText(d)) ELSE cache[k]]

\* connection.exists(key)
exists(cache, key) == key \in DOMAIN cache

\* connection.delete(key)
delete_key(cache, key) == [k \in (DOMAIN cache) \ {key} |-> cache[k]]

\* QuerySetMixin.redis_dict_to_obj: every field but id is read from the
\* entry; bool(text), fromtimestamp(float(text)), else the text itself.
redis_dict_to_obj(as_dict) ==
    klass([f \in UserFields \ {"id"} |->
            CASE UserFieldType[f] = "bool" -> as_dict[f] # ""
              [] UserFieldType[f] = "datetime" -> TextToNum(as_dict[f])
              [] OTHER -> as_dict[f]])

\* QuerySet.update_kwargs_for_creation (transform_kwargs changes nothing:
\* every key passed is a field of User).
update_kwargs_for_creation(kwargs, clock) ==
    Merge(kwargs, update_passed_values(kwargs, clock))

\* QuerySet.in_write_cache
in_write_cache(cache, obj) == exists(cache, cache_key(UsersTable, obj.email))

\* Variants of remove_cache: one that never deletes, one that deletes
\* whether or not a connection was passed.
remove_cache_never(cache, obj, connection) == cache

remove_cache_always(cache, obj, connection) ==
    delete_key(cache, cache_key(UsersTable, obj.email))

\* A variant of remove_cache that also deletes the entry the read-cache
\* tier holds under the record's email.
remove_cache_both_tiers(cache, obj, connection) ==
    IF connection
    THEN delete_key(delete_key(cache, cache_key(UsersTable, obj.email)),
                    <<"user_info", ":", obj.email>>)
    ELSE cache

\* QuerySet.remove_cache
remove_cache(cache, obj, connection) ==
    IF connection /\ in_write_cache(cache, obj)
    THEN delete_key(cache, cache_key(UsersTable, obj.email))
    ELSE cache

\* A variant of quick_create without the existence check.
quick_create_unguarded(cache, kwargs, clock) ==
    LET instance == klass(update_kwargs_for_creation(kwargs, clock))
        as_dict == Pop(obj_to_redis_dict(instance), "id")
        key == cache_key(UsersTable, instance.email)
    IN  [result |-> "ok", key |-> key,
         cache |-> hmset_dict(cache, key, as_dict)]

\* QuerySet.quick_create, run without interruption: the outcome, the key and
\* the cache afterwards.
quick_create(cache, kwargs, clock) ==
    LET instance == klass(update_kwargs_for_creation(kwargs, clock))
        as_dict == Pop(obj_to_redis_dict(instance), "id")
        key == cache_key(UsersTable, instance.email)
    IN  IF exists(cache, key)
        THEN [result |-> "CacheDuplicateError", key |-> key, cache |-> cache]
        ELSE [result |-> "ok", key |-> key,
              cache |-> hmset_dict(cache, key, as_dict)]

\* Base.save_model: the store write and remove_cache, gathered.  remove_cache
\* is given the record built from clean_values whenever a connection is
\* passed (and does nothing without one); it runs to its end also when the
\* store write fails.
save_model(rows, nid, cache, clean_values, _id, connection, driverRet) ==
    LET w == execute_save(rows, nid, clean_values, _id, driverRet)
    IN  [ok |-> w.ok, result |-> w.result, rows |-> w.rows,
         nextId |-> w.nextId,
         cache |-> remove_cache(cache, klass(clean_values), connection)]

\* Base.save: what it leaves on the in-memory record when save_model
\* returned result.
save_assign(self, result, with_default_values) ==
    Merge(IF result # 0 THEN Merge(self, [id |-> result]) ELSE self,
          with_default_values)

\* The rows of users after User.objects.create(**kwargs) at a clock value.
UsersAfterCreate(rows, nid, kwargs, clock) ==
    LET instance == klass(update_kwargs_for_creation(kwargs, clock))
        clean_values == build_db_save_params(instance)
        with_default_values == update_passed_values(clean_values, clock)
    IN  save_model(rows, nid, <<>>, Merge(clean_values, with_default_values),
                   instance.id, FALSE, "none").rows

----------------------------------------------------------------------------
(* orm/queryset.py: the read-cache tier (CacheQuerySet), for the derived   *)
(* entity UserInfo of tests/models.py.                                      *)

\* The elements of a set of numbers in ascending order.
Ascending(S) ==
    CHOOSE s \in [1..Cardinality(S) -> S] :
        \A i, j \in 1..Cardinality(S) : i < j => s[i] < s[j]

\* The outcome of a get_data call that raises, leaving ctx pending on
\* User.objects.
Raised(ctx) == [ok |-> FALSE, data |-> NoInfo, qs |-> ctx]

\* UserInfo.get_data(key): the outcomes it can have on the store contents,
\* with ctx pending on User.objects when it is called.  The profile and the
\* phone numbers are selected through the join with users on email = key;
\* each fetched row is turned into a record (as_klass), whose user field is
\* looked up with User.objects.get(id=user_id), a get that is subject to ctx
\* and leaves nothing pending.  Without a profile, or without its user,
\* get_data raises.
get_data(rows, profs, phs, ctx, key) ==
    LET ps == {p \in DOMAIN profs : rows[profs[p].user_id].email = key}
        ns == {n \in DOMAIN phs : rows[phs[n].user_id].email = key}
        numbers == [i \in 1..Cardinality(ns) |-> phs[Ascending(ns)[i]].number]
    IN  IF ps = {}
        THEN {Raised(IF ns = {} THEN ctx ELSE NoFilter)}
        ELSE {IF get(rows, ctx, filter("id", profs[p].user_id)) = {}
              THEN Raised(NoFilter)
              ELSE [ok |-> TRUE,
                    data |-> [full_name |-> rows[profs[p].user_id].full_name,
                              email |-> rows[profs[p].user_id].email,
                              is_active |-> rows[profs[p].user_id].is_active,
                              addresses |-> profs[p].addresses,
                              numbers |-> numbers],
                    qs |-> NoFilter] : p \in ps}

\* QuerySetMixin.dict_to_redis_dict: bool -> int, list -> json.dumps, every
\* other value as it is.
dict_to_redis_dict(dictionary) ==
    [f \in DOMAIN dictionary |->
        CASE InfoFieldType[f] = "bool" -> (IF dictionary[f] THEN 1 ELSE 0)
          [] InfoFieldType[f] = "list" -> JsonDumps(dictionary[f])
          [] OTHER -> dictionary[f]]

\* CacheQuerySet.save_to_cache(result, connection), result the mapping
\* get_data returned or an instance: the key is made of its email.
save_to_cache(cache, result) ==
    hmset_dict(cache, cache_key(InfoCacheKey, result.email),
               dict_to_redis_dict(result))

\* QuerySetMixin.redis_dict_to_obj on the mapping get_data returned: no value
\* is text to decode, bool(v) of a boolean is v.
redis_dict_to_info(result, from_db) == Merge(result, [from_db |-> from_db])

\* QuerySetMixin.redis_dict_to_obj on the hash read from the key-value
\* store, every value of which is text: bool(text), json.loads(text), else
\* the text itself; from_db is the value get() has put in the mapping.
redis_text_to_info(as_dict, from_db) ==
    [f \in InfoFields |->
        CASE f = "from_db" -> from_db
          [] f # "from_db" /\ InfoFieldType[f] = "bool" -> as_dict[f] # ""
          [] InfoFieldType[f] = "list" -> JsonLoads(as_dict[f])
          [] OTHER -> as_dict[f]]

----------------------------------------------------------------------------
(* The caller: operations on the User entity, one at a time.               *)

NoKey == <<>>

\* The keyword arguments a caller passes to User(...), create and
\* quick_create: the two required fields, and is_active when it is False.
CallerKwargs ==
    {[full_name |-> n, email |-> e] : n \in Names, e \in Emails}
    \cup {[full_name |-> n, email |-> e, is_active |-> FALSE] :
            n \in Names, e \in Emails}

\* What is kept of the operation that ran last: its name, how it ended,
\* whether a cache connection was passed, the cache key it worked on, whether
\* that key was in the write-cache tier when it began, and the identity the
\* in-memory record had when it began.
Done(op, result, connection, key, staged) ==
    [op |-> op, result |-> result, conn |-> connection, key |-> key,
     staged |-> staged, id0 |-> rec.id]

\* The tasks of the concurrent calls, none of them started.
Tasks == {"A", "B"}

NoCall == [pc |-> "idle", key |-> NoKey, as_dict |-> <<>>]

NoTasks == [t \in Tasks |-> NoCall]

Init ==
    /\ users = <<>>
    /\ nextId = 1
    /\ profiles = <<>>
    /\ nextProfile = 1
    /\ phones = <<>>
    /\ nextPhone = 1
    /\ qs = NoFilter
    /\ redis = <<>>
    /\ rec = NoRec
    /\ origin = "none"
    /\ info = NoInfo
    /\ now = 1
    /\ last = Done("init", "ok", FALSE, NoKey, FALSE)
    /\ tasks = NoTasks

\* User.objects.quick_create(connection, **kwargs)
QuickCreate(kwargs) ==
    /\ now <= MaxClock
    /\ LET r == quick_create(redis, kwargs, now)
       IN  /\ redis' = r.cache
           /\ last' = Done("quick_create", r.result, TRUE, r.key,
                           exists(redis, r.key))
    /\ now' = now + 1
    /\ UNCHANGED notInSpec
    /\ UNCHANGED <<users, nextId, related, qs, rec, origin>>

\* record = User.objects.cache_get(cache_field, connection=conn)
CacheGet(cache_field) ==
    /\ now <= MaxClock
    /\ LET key == cache_key(UsersTable, cache_field)
       IN  /\ IF exists(redis, key)
              THEN rec' = redis_dict_to_obj(redis[key]) /\ origin' = "cache"
              ELSE rec' = NoRec /\ origin' = "none"
           /\ last' = Done("cache_get", "ok", TRUE, key, exists(redis, key))
    /\ now' = now + 1
    /\ UNCHANGED notInSpec
    /\ UNCHANGED <<users, nextId, related, qs, redis>>

\* record = User(**kwargs)
New(kwargs) ==
    /\ now <= MaxClock
    /\ rec' = klass(kwargs)
    /\ origin' = "new"
    /\ last' = Done("new", "ok", FALSE, NoKey, FALSE)
    /\ now' = now + 1
    /\ UNCHANGED notInSpec
    /\ UNCHANGED <<users, nextId, related, qs, redis>>

\* record.full_name = n, record.email = e
Mutate(f, v) ==
    /\ now <= MaxClock
    /\ rec # NoRec
    /\ rec[f] # v
    /\ rec' = [rec EXCEPT ![f] = v]
    /\ last' = Done("mutate", "ok", FALSE, NoKey, FALSE)
    /\ now' = now + 1
    /\ UNCHANGED notInSpec
    /\ UNCHANGED <<users, nextId, related, qs, redis, origin>>

\* record.save(connection=...): Base.save
Save(connection, driverRet) ==
    /\ now <= MaxClock
    /\ rec # NoRec
    /\ rec.id = 0 => nextId <= MaxId
    /\ LET clean_values == build_db_save_params(rec)
           with_default_values == update_passed_values(clean_values, now)
           r == save_model(users, nextId, redis,
                           Merge(clean_values, with_default_values),
                           rec.id, connection, driverRet)
       IN  /\ users' = r.rows
           /\ nextId' = r.nextId
           /\ redis' = r.cache
           /\ rec' = IF r.ok
                     THEN save_assign(rec, r.result, with_default_values)
                     ELSE rec
           /\ last' = Done("save", IF r.ok THEN "ok" ELSE "IntegrityError",
                           connection, cache_key(UsersTable, rec.email),
                           in_write_cache(redis, rec))
    /\ now' = now + 1
    /\ UNCHANGED notInSpec
    /\ UNCHANGED <<related, qs, origin>>

\* record = User.objects.create(**kwargs): QuerySet.create, which saves
\* without a cache connection.
Create(kwargs) ==
    /\ now <= MaxClock
    /\ nextId <= MaxId
    /\ LET instance == klass(update_kwargs_for_creation(kwargs, now))
           clean_values == build_db_save_params(instance)
           with_default_values == update_passed_values(clean_values, now)
           r == save_model(users, nextId, redis,
                           Merge(clean_values, with_default_values),
                           instance.id, FALSE, "none")
       IN  /\ users' = r.rows
           /\ nextId' = r.nextId
           /\ redis' = r.cache
           /\ IF r.ok
              THEN /\ rec' = save_assign(instance, r.result,
                                         with_default_values)
                   /\ origin' = "create"
              ELSE UNCHANGED <<rec, origin>>
           /\ last' = Done("create", IF r.ok THEN "ok" ELSE "IntegrityError",
                           FALSE, cache_key(UsersTable, instance.email),
                           in_write_cache(redis, instance))
    /\ now' = now + 1
    /\ UNCHANGED notInSpec
    /\ UNCHANGED <<related, qs>>

\* record = User.objects.get(id=i): the row selected by the pending context
\* and id = i, as a record (as_klass), or None; nothing is pending after it.
Get(i) ==
    /\ now <= MaxClock
    /\ LET found == get(users, qs, filter("id", i))
       IN  IF found = {}
           THEN rec' = NoRec /\ origin' = "none"
           ELSE \E r \in found : rec' = klass(users[r]) /\ origin' = "db"
    /\ qs' = NoFilter
    /\ last' = Done("get", "ok", FALSE, NoKey, FALSE)
    /\ now' = now + 1
    /\ UNCHANGED notInSpec
    /\ UNCHANGED <<users, nextId, related, redis>>

\* record.delete(): Base.delete, self.objects.filter(id=self.id).delete();
\* the rows of the tables referencing a deleted row go with it.
Delete ==
    /\ now <= MaxClock
    /\ rec # NoRec
    /\ users' = delete(users, filter("id", rec.id))
    /\ profiles' = cascade(profiles, users')
    /\ phones' = cascade(phones, users')
    /\ qs' = NoFilter
    /\ last' = Done("delete", "ok", FALSE, NoKey, in_write_cache(redis, rec))
    /\ now' = now + 1
    /\ UNCHANGED notInSpec
    /\ UNCHANGED <<nextId, nextProfile, nextPhone, redis, rec, origin>>

Next ==
    \/ \E kwargs \in CallerKwargs : QuickCreate(kwargs)
    \/ \E e \in Emails : CacheGet(e)
    \/ \E kwargs \in CallerKwargs : New(kwargs)
    \/ \E n \in Names : Mutate("full_name", n)
    \/ \E e \in Emails : Mutate("email", e)
    \/ \E c \in BOOLEAN, d \in DriverReturns : Save(c, d)
    \/ \E kwargs \in CallerKwargs : Create(kwargs)
    \/ \E i \in 1..MaxId : Get(i)
    \/ Delete

Spec == Init /\ [][Next]_vars

----------------------------------------------------------------------------
(* Claims checked under Spec.                                              *)

\* C1: a quick_create whose cache key is already in the write-cache tier
\* fails with CacheDuplicateError and leaves every entry of the tier, the
\* existing one included, exactly as it was.
C1_DuplicateRejected ==
    [][(last'.op = "quick_create" /\ exists(redis, last'.key))
        => (last'.result = "CacheDuplicateError" /\ redis' = redis)]_vars

\* A second quick_create on a staged key has just failed.
C1_Witness ==
    /\ last.op = "quick_create"
    /\ last.result = "CacheDuplicateError"
    /\ last.staged
    /\ exists(redis, last.key)

\* C2: after a successful save(connection=conn) of a record that was in the
\* write-cache tier, in_write_cache(record) is false and the record has a
\* nonzero identity.
C2_SavedLeavesWriteCache ==
    (last.op = "save" /\ last.conn /\ last.result = "ok" /\ last.staged)
        => (~in_write_cache(redis, rec) /\ rec.id # 0)

\* A record read back with cache_get has been saved with the connection.
C2_Witness ==
    /\ last.op = "save" /\ last.conn /\ last.result = "ok" /\ last.staged
    /\ origin = "cache"
    /\ last.id0 = 0
    /\ rec.id \in DOMAIN users

\* C3, as claimed: after every successful save() or create() the saved
\* record has no entry in the write-cache tier.
C3_EverySaveRemoves ==
    (last.op \in {"save", "create"} /\ last.result = "ok")
        => ~in_write_cache(redis, rec)

\* C3, amended: a successful save() that is passed a cache connection
\* deletes the record's key from the write-cache tier and nothing else; a
\* successful save() without a connection, and create(), leave the tier as
\* it was.
C3_SaveRemovesWithConnection ==
    [][/\ (last'.op = "save" /\ last'.result = "ok" /\ last'.conn)
            => redis' = delete_key(redis, last'.key)
       /\ (last'.result = "ok"
           /\ (last'.op = "create" \/ (last'.op = "save" /\ ~last'.conn)))
            => redis' = redis]_vars

\* A staged record was persisted without a connection and is still staged.
C3_Witness ==
    /\ last.op = "save" /\ ~last.conn /\ last.result = "ok" /\ last.staged
    /\ rec.id \in DOMAIN users
    /\ in_write_cache(redis, rec)

\* C7: create() leaves created and modified set, on the record and in its
\* row, to the suppliers' value at that call; each later successful save()
\* of that record sets modified to the value at that save and leaves created
\* as it was, on the record and in the row it updates.
C7_CreatedKeptModifiedRenewed ==
    [][/\ (last'.op = "create" /\ last'.result = "ok")
            => /\ rec'.created = now /\ rec'.modified = now
               /\ rec'.id \in DOMAIN users'
               /\ users'[rec'.id].created = now
               /\ users'[rec'.id].modified = now
       /\ (last'.op = "save" /\ last'.result = "ok" /\ origin = "create")
            => /\ rec'.modified = now
               /\ rec'.created = rec.created
               /\ rec.id \in DOMAIN users'
                    => /\ users'[rec.id].modified = now
                       /\ users'[rec.id].created = rec.created]_vars

\* A created record has been saved again, later.
C7_Witness ==
    /\ origin = "create"
    /\ last.op = "save" /\ last.result = "ok"
    /\ rec.created # 0
    /\ rec.modified > rec.created
    /\ last.id0 \in DOMAIN users
    /\ users[last.id0].modified > users[last.id0].created

\* C8: a successful save() of a record with identity 0 adds exactly one row,
\* under a new positive identity that the record is given, holding the
\* record's values; a successful save() of a record with a nonzero identity
\* adds and removes no row and changes at most the row with that identity,
\* which then holds the record's values.
C8_InsertOrUpdateInPlace ==
    [][/\ (last'.op = "save" /\ last'.result = "ok" /\ rec.id = 0)
            => /\ rec'.id > 0
               /\ rec'.id \notin DOMAIN users
               /\ DOMAIN users' = (DOMAIN users) \cup {rec'.id}
               /\ \A i \in DOMAIN users : users'[i] = users[i]
               /\ users'[rec'.id] = rec'
       /\ (last'.op = "save" /\ last'.result = "ok" /\ rec.id # 0)
            => /\ DOMAIN users' = DOMAIN users
               /\ \A i \in DOMAIN users :
                    users'[i] = IF i = rec.id
                                THEN [rec' EXCEPT !.id = rec.id]
                                ELSE users[i]]_vars

\* A record with an identity was saved over its row, beside another row.
C8_Witness ==
    /\ last.op = "save" /\ last.result = "ok"
    /\ last.id0 \in DOMAIN users
    /\ users[last.id0].modified > users[last.id0].created
    /\ Cardinality(DOMAIN users) = 2

----------------------------------------------------------------------------
(* Properties of the cache encoding and of staging.                         *)

\* The records quick_create can build: User(**kwargs) with the creation
\* values of any clock value.
Staged ==
    {klass(update_kwargs_for_creation(kwargs, clock)) :
        kwargs \in CallerKwargs, clock \in 1..(MaxClock + 1)}

\* The entry the encoding of a record makes in the key-value store.
EntryOf(instance) == RedisText(Pop(obj_to_redis_dict(instance), "id"))

\* C16: the record cache_get decodes from an entry is equal, on every field
\* but id, to any record whose encoding the entry is.
C16_EncodingRoundTrips ==
    [][(last'.op = "cache_get" /\ last'.staged) =>
        \A instance \in Staged :
            redis[last'.key] = EntryOf(instance) =>
                \A f \in UserFields \ {"id"} : rec'[f] = instance[f]
      ]_vars

\* C17: a successful quick_create returns the key made of the table name
\* and the record's email, leaves under it an entry without id, for which
\* in_write_cache holds, and writes no row; a cache_get of that email that
\* follows returns a record with the staged values and id 0.
C17_StagedAndReadBack ==
    [][/\ (last'.op = "quick_create" /\ last'.result = "ok") =>
            /\ users' = users
            /\ exists(redis', last'.key)
            /\ "id" \notin DOMAIN redis'[last'.key]
            /\ \E instance \in Staged :
                /\ last'.key = <<"users", ":", instance.email>>
                /\ redis'[last'.key] = EntryOf(instance)
                /\ in_write_cache(redis', instance)
       /\ (last.op = "quick_create" /\ last.result = "ok"
            /\ last'.op = "cache_get" /\ last'.key = last.key) =>
            /\ rec'.id = 0
            /\ \A instance \in Staged :
                redis[last.key] = EntryOf(instance) =>
                    \A f \in UserFields \ {"id"} : rec'[f] = instance[f]
      ]_vars


\* C35: a boolean field comes back from the key-value store with the value
\* it was staged with: a record staged with is_active False is decoded by
\* cache_get with is_active False.
C35_BooleanRoundTrips ==
    (last.op = "cache_get" /\ last.staged)
        => (rec.is_active <=> redis[last.key].is_active = "1")

\* C36: save() on a record whose identity is not 0 leaves the identity of
\* the in-memory record as it is, whatever the store hands back for the
\* update.
C36_SaveKeepsIdentity ==
    [][(last'.op = "save" /\ rec.id > 0) => rec'.id = rec.id]_vars
----------------------------------------------------------------------------
(* The caller of tests/test_cache.py,                                       *)
(* test_queryset_for_specific_model_from_cache: records of User and of      *)
(* Skill are staged, and the staged users are listed.                        *)

\* The names a caller gives a skill.
SkillNames == {"French", "for users: French"}

\* A text as the pieces a key pattern is matched against: a table name and
\* the colon after it are pieces of their own.
Pieces(text) ==
    IF text = "for users: French" THEN <<"for ", "users", ":", " French">>
    ELSE <<text>>

\* The text of a key, f"{table_name}:{value}", in pieces.
KeyPieces(key) == <<key[1], key[2]>> \o Pieces(key[3])

\* connection.keys(f"*{prefix}:*"): the keys whose text holds the prefix
\* and a colon, anywhere.
keys(cache, prefix) ==
    {k \in DOMAIN cache :
        \E i \in 1..(Len(KeyPieces(k)) - 1) :
            KeyPieces(k)[i] = prefix /\ KeyPieces(k)[i + 1] = ":"}

\* Skill.objects.quick_create(connection, name=n): Skill has the fields id
\* and name and no default in its table_config.
skill_quick_create(cache, n) ==
    LET key == cache_key("skills", n)
    IN  IF exists(cache, key)
        THEN [result |-> "CacheDuplicateError", key |-> key, cache |-> cache]
        ELSE [result |-> "ok", key |-> key,
              cache |-> hmset_dict(cache, key, [name |-> n])]

\* redis_dict_to_obj reads every field of User but id from the entry, and
\* raises KeyError on an entry that lacks one.
Decodable(as_dict) == UserFields \ {"id"} \subseteq DOMAIN as_dict

\* What is kept of cache_all: how it ended, the keys it fetched and the
\* record decoded from each.
DoneAll(result, connection, fetched, records) ==
    [op |-> "cache_all", result |-> result, conn |-> connection,
     fetched |-> fetched, records |-> records]

SkillQuickCreate(n) ==
    /\ now <= MaxClock
    /\ LET r == skill_quick_create(redis, n)
       IN  /\ redis' = r.cache
           /\ last' = Done("skill_quick_create", r.result, TRUE, r.key,
                           exists(redis, r.key))
    /\ now' = now + 1
    /\ UNCHANGED notInSpec
    /\ UNCHANGED <<users, nextId, related, qs, rec, origin>>

\* records = User.objects.cache_all(connection=conn)
CacheAll(connection) ==
    /\ now <= MaxClock
    /\ LET fetched == keys(redis, UsersTable)
       IN  IF ~connection
           THEN last' = DoneAll("AssertionError", connection, {}, <<>>)
           ELSE IF \A k \in fetched : Decodable(redis[k])
           THEN last' = DoneAll("ok", connection, fetched,
                                [k \in fetched |-> redis_dict_to_obj(redis[k])])
           ELSE last' = DoneAll("KeyError", connection, fetched, <<>>)
    /\ now' = now + 1
    /\ UNCHANGED notInSpec
    /\ UNCHANGED <<users, nextId, related, qs, redis, rec, origin>>

NextAll ==
    \/ \E kwargs \in CallerKwargs : QuickCreate(kwargs)
    \/ \E n \in SkillNames : SkillQuickCreate(n)
    \/ \E connection \in BOOLEAN : CacheAll(connection)

SpecAll == Init /\ [][NextAll]_vars

\* C19: cache_all of User, given a connection, returns one decoded record
\* for each entry staged for User and none for any other entry.
C19_OneRecordPerStagedEntry ==
    (last.op = "cache_all" /\ last.conn) =>
        /\ last.result = "ok"
        /\ DOMAIN last.records = {k \in DOMAIN redis : k[1] = UsersTable}

----------------------------------------------------------------------------
(* Two quick_create calls on one connection, as tasks of the event loop.   *)
(* A call runs without interruption up to an await on the key-value store; *)
(* the store answers the commands one at a time.                           *)

\* The variables the concurrent calls leave alone.
notInConc == <<users, nextId, related, qs, rec, origin, info, last>>

\* An empty store and an empty key-value store, no call started.
InitConc ==
    /\ users = <<>>
    /\ nextId = 1
    /\ profiles = <<>>
    /\ nextProfile = 1
    /\ phones = <<>>
    /\ nextPhone = 1
    /\ qs = NoFilter
    /\ redis = <<>>
    /\ rec = NoRec
    /\ origin = "none"
    /\ info = NoInfo
    /\ now = 1
    /\ last = Done("init", "ok", FALSE, NoKey, FALSE)
    /\ tasks = NoTasks

\* quick_create up to `await connection.exists(key)`: the record is built,
\* encoded, its key computed and EXISTS sent.
CallQuickCreate(t, kwargs) ==
    /\ tasks[t].pc = "idle"
    /\ LET instance == klass(update_kwargs_for_creation(kwargs, now))
       IN  tasks' = [tasks EXCEPT ![t] =
                [pc |-> "exists",
                 key |-> cache_key(UsersTable, instance.email),
                 as_dict |-> Pop(obj_to_redis_dict(instance), "id")]]
    /\ now' = now + 1
    /\ UNCHANGED redis
    /\ UNCHANGED notInConc

\* The store answers EXISTS; the call raises CacheDuplicateError or sends
\* HMSET and awaits it.
ExistsReply(t) ==
    /\ tasks[t].pc = "exists"
    /\ tasks' = [tasks EXCEPT ![t].pc =
            IF exists(redis, tasks[t].key) THEN "raised" ELSE "hmset"]
    /\ UNCHANGED <<redis, now>>
    /\ UNCHANGED notInConc

\* The store runs HMSET and answers; the call returns the key.
HmsetReply(t) ==
    /\ tasks[t].pc = "hmset"
    /\ redis' = hmset_dict(redis, tasks[t].key, tasks[t].as_dict)
    /\ tasks' = [tasks EXCEPT ![t].pc = "returned"]
    /\ UNCHANGED now
    /\ UNCHANGED notInConc

NextConc ==
    \/ \E t \in Tasks, kwargs \in CallerKwargs : CallQuickCreate(t, kwargs)
    \/ \E t \in Tasks : ExistsReply(t)
    \/ \E t \in Tasks : HmsetReply(t)

SpecConc == InitConc /\ [][NextConc]_vars

\* C6: of two quick_create calls for one cache key, however they interleave,
\* at most one returns; the entry of the one that returned is the entry in
\* the tier.
C6_AtMostOneWins ==
    \A t, u \in Tasks :
        (/\ t # u
         /\ tasks[t].pc \in {"returned", "raised"}
         /\ tasks[u].pc \in {"returned", "raised"}
         /\ tasks[t].key = tasks[u].key)
        => /\ ~(tasks[t].pc = "returned" /\ tasks[u].pc = "returned")
           /\ tasks[t].pc = "returned"
                => redis[tasks[t].key] = RedisText(tasks[t].as_dict)
----------------------------------------------------------------------------
(* record.save(connection=...) step by step: save_model starts the store   *)
(* write and remove_cache together (asyncio.gather) and awaits them; each  *)
(* of the two moves forward when its own store answers.  gather hands the  *)
(* first exception raised to save at once and leaves the other one to run. *)

\* No save started.  write: where the store write stands ("idle", "sent",
\* "ok", or the error it raised); cache: where remove_cache stands ("idle",
\* "exists", "delete", "done", or the error it raised); save: where save
\* stands ("idle", "awaiting", "returned", or the error it raised); error:
\* the first exception raised by either; connected: whether the store
\* connection of the alias is open.
NoSave ==
    [save |-> "idle", write |-> "idle", cache |-> "idle", error |-> "",
     connected |-> TRUE, _id |-> 0, values |-> NoRec, defaults |-> <<>>,
     result |-> 0, rec0 |-> NoRec]

\* The variables the steps of a save leave alone.
notInSave == <<related, qs, origin, info, last>>

\* The store holds one user, the write-cache tier one staged record, and
\* the caller holds no record.
InitSave ==
    /\ users = UsersAfterCreate(<<>>, 1,
                   [full_name |-> "Abiola", email |-> "j@o.com"], 1)
    /\ nextId = 2
    /\ profiles = <<>>
    /\ nextProfile = 1
    /\ phones = <<>>
    /\ nextPhone = 1
    /\ qs = NoFilter
    /\ \E e \in Emails :
          redis = quick_create(<<>>, [full_name |-> "Shola", email |-> e],
                               1).cache
    /\ rec = NoRec
    /\ origin = "none"
    /\ info = NoInfo
    /\ now = 2
    /\ last = Done("init", "ok", FALSE, NoKey, FALSE)
    /\ tasks = NoSave

\* Whether neither of the two gathered calls is waiting for an answer.
Settled(s) == s.write # "sent" /\ s.cache \notin {"exists", "delete"}

\* save up to `await asyncio.gather(*tasks)`: the statement is built and
\* sent, and remove_cache, when there is a record to give it, has sent
\* EXISTS (with a connection) or returned (without one).
SaveCall(connection) ==
    /\ now <= MaxClock
    /\ rec # NoRec
    /\ tasks.save # "awaiting"
    /\ Settled(tasks)
    /\ rec.id = 0 => nextId <= MaxId
    /\ LET clean_values == build_db_save_params(rec)
           with_default_values == update_passed_values(clean_values, now)
       IN  tasks' = [save |-> "awaiting", write |-> "sent",
                     cache |-> IF connection THEN "exists" ELSE "done",
                     error |-> "", connected |-> tasks.connected,
                     _id |-> rec.id,
                     values |-> Merge(clean_values, with_default_values),
                     defaults |-> with_default_values, result |-> 0,
                     rec0 |-> rec]
    /\ now' = now + 1
    /\ UNCHANGED <<users, nextId, redis, rec>>
    /\ UNCHANGED notInSave

\* The first exception raised by one of the gathered calls.
FirstError(s, error) == IF s.error = "" THEN error ELSE s.error

\* The store answers the statement: it has run it, or refused it (the
\* unique index), or the driver raises InterfaceError.
StoreReply(fault, driverRet) ==
    /\ tasks.write = "sent"
    /\ IF fault
       THEN /\ tasks' = [tasks EXCEPT !.write = "InterfaceError",
                            !.error = FirstError(tasks, "InterfaceError")]
            /\ UNCHANGED <<users, nextId>>
       ELSE LET w == execute_save(users, nextId, tasks.values, tasks._id,
                                  driverRet)
            IN  /\ users' = w.rows
                /\ nextId' = w.nextId
                /\ tasks' = IF w.ok
                            THEN [tasks EXCEPT !.write = "ok",
                                               !.result = w.result]
                            ELSE [tasks EXCEPT !.write = "IntegrityError",
                                     !.error = FirstError(tasks,
                                                          "IntegrityError")]
    /\ UNCHANGED <<redis, rec, now>>
    /\ UNCHANGED notInSave

\* The key-value store answers EXISTS: remove_cache sends DELETE, or
\* returns, or the connection raises.
CacheExistsReply(fault) ==
    /\ tasks.cache = "exists"
    /\ tasks' =
        IF fault
        THEN [tasks EXCEPT !.cache = "ConnectionError",
                           !.error = FirstError(tasks, "ConnectionError")]
        ELSE [tasks EXCEPT !.cache =
                IF in_write_cache(redis, klass(tasks.values))
                THEN "delete" ELSE "done"]
    /\ UNCHANGED <<users, nextId, redis, rec, now>>
    /\ UNCHANGED notInSave

\* The key-value store runs DELETE and answers; remove_cache returns.
CacheDeleteReply ==
    /\ tasks.cache = "delete"
    /\ redis' = delete_key(redis,
                           cache_key(UsersTable, klass(tasks.values).email))
    /\ tasks' = [tasks EXCEPT !.cache = "done"]
    /\ UNCHANGED <<users, nextId, rec, now>>
    /\ UNCHANGED notInSave

\* A variant of the handler that leaves the connection open.
on_interface_error_keep(connected) == connected

\* save, `except asyncpg.exceptions.InterfaceError`: what becomes of the
\* store connection of the alias, await self.databases[using].disconnect().
on_interface_error(connected) == FALSE

\* save resumes: gather has handed it the first exception, or the results
\* of both calls.  With the results, save assigns the identity and the
\* default values; with InterfaceError it disconnects and raises it again;
\* any other exception goes to the caller as it is.
SaveResume ==
    /\ tasks.save = "awaiting"
    /\ tasks.error # "" \/ (tasks.write = "ok" /\ tasks.cache = "done")
    /\ IF tasks.error = ""
       THEN /\ rec' = save_assign(rec, tasks.result, tasks.defaults)
            /\ tasks' = [tasks EXCEPT !.save = "returned"]
       ELSE /\ UNCHANGED rec
            /\ tasks' = [tasks EXCEPT !.save = tasks.error,
                            !.connected =
                                IF tasks.error = "InterfaceError"
                                THEN on_interface_error(tasks.connected)
                                ELSE tasks.connected]
    /\ UNCHANGED <<users, nextId, redis, now>>
    /\ UNCHANGED notInSave

\* The caller, between two saves, makes a new record.
NewRecord(kwargs) == tasks.save # "awaiting" /\ New(kwargs)

\* The caller, between two saves, stages a record.
StageRecord(kwargs) == tasks.save # "awaiting" /\ QuickCreate(kwargs)

NextSave ==
    \/ \E kwargs \in CallerKwargs : NewRecord(kwargs)
    \/ \E kwargs \in CallerKwargs : StageRecord(kwargs)
    \/ \E connection \in BOOLEAN : SaveCall(connection)
    \/ \E fault \in BOOLEAN : StoreReply(fault, "none")
    \/ \E fault \in BOOLEAN : CacheExistsReply(fault)
    \/ CacheDeleteReply
    \/ SaveResume

SpecSave == InitSave /\ [][NextSave]_vars

\* Whether the store write of the save has left its row in the store.
RowWritten(rows, s) ==
    \E i \in DOMAIN rows : rows[i].email = s.values.email

\* What holds of a save that ends with an exception: it raises the first
\* exception, and the record keeps the identity it had.
FailsWithFirst ==
    tasks.error # ""
        => /\ tasks'.save = tasks.error
           /\ rec'.id = tasks.rec0.id
           /\ tasks.write = "ok" => RowWritten(users', tasks)
           /\ tasks.cache = "done" /\ tasks.rec0 # NoRec
                => redis' = redis

\* C22: save() starts the store write and the write-cache invalidation
\* together and ends only when both have ended; when one of them fails,
\* save() fails with that error, what the other did stays, and the record
\* keeps its identity.
C22_SaveEndsAfterBoth ==
    [][tasks.save = "awaiting" /\ tasks'.save # "awaiting"
        => Settled(tasks') /\ FailsWithFirst]_vars

----------------------------------------------------------------------------
(* The caller of tests/test_cache.py, test_cache_model: the store holds the *)
(* data of create_test_data; the caller reads UserInfo through the          *)
(* read-cache tier and changes the source entities.                         *)

\* What is kept of an operation on a query set or on the read-cache tier:
\* besides the fields of Done, the filter context the operation ran under
\* and the number of get_data calls it made.
DoneQuery(op, result, key, hit, ctx, calls) ==
    [op |-> op, result |-> result, conn |-> TRUE, key |-> key,
     staged |-> hit, id0 |-> rec.id, ctx |-> ctx, calls |-> calls]

\* create_test_data, User.objects.create(**kwargs) on the empty table at
\* clock 1: the rows of users and the record it returns.
TestUser(kwargs) ==
    LET instance == klass(update_kwargs_for_creation(kwargs, 1))
        clean_values == build_db_save_params(instance)
        with_default_values == update_passed_values(clean_values, 1)
        r == save_model(<<>>, 1, <<>>, Merge(clean_values, with_default_values),
                        instance.id, FALSE, "none")
    IN  [rows |-> r.rows,
         rec |-> save_assign(instance, r.result, with_default_values)]

\* After create_test_data: one user, its profile and its phone number, and
\* nothing in the key-value store.
InitRead ==
    /\ \E kwargs \in CallerKwargs :
        /\ kwargs.email = "j@o.com"
        /\ rec = TestUser(kwargs).rec
        /\ users = TestUser(kwargs).rows
    /\ nextId = 2
    /\ profiles = PutRow(<<>>, 1,
                         [id |-> 1, user_id |-> 1, addresses |-> TestAddresses])
    /\ nextProfile = 2
    /\ phones = PutRow(<<>>, 1,
                       [id |-> 1, user_id |-> 1, number |-> TestNumber])
    /\ nextPhone = 2
    /\ qs = NoFilter
    /\ redis = <<>>
    /\ origin = "create"
    /\ info = NoInfo
    /\ now = 2
    /\ last = Done("init", "ok", FALSE, NoKey, FALSE)
    /\ tasks = NoTasks

\* record = UserInfo.objects.get(key, connection=conn): CacheQuerySet.get
ReadGet(key) ==
    /\ now <= MaxClock
    /\ LET _cache_key == cache_key(InfoCacheKey, key)
       IN  IF exists(redis, _cache_key)
           THEN /\ info' = redis_text_to_info(redis[_cache_key], FALSE)
                /\ last' = DoneQuery("read_get", "ok", _cache_key, TRUE, qs, 0)
                /\ UNCHANGED <<redis, qs>>
           ELSE \E o \in get_data(users, profiles, phones, qs, key) :
                /\ qs' = o.qs
                /\ IF o.ok
                   THEN /\ redis' = save_to_cache(redis, o.data)
                        /\ info' = redis_dict_to_info(o.data, TRUE)
                   ELSE UNCHANGED <<redis, info>>
                /\ last' = DoneQuery("read_get",
                                     IF o.ok THEN "ok" ELSE "AttributeError",
                                     _cache_key, FALSE, qs, 1)
    /\ now' = now + 1
    /\ UNCHANGED <<users, nextId, related, rec, origin, tasks>>

\* record.full_name = n, on the UserInfo instance
MutateInfo(n) ==
    /\ now <= MaxClock
    /\ info # NoInfo
    /\ info.full_name # n
    /\ info' = [info EXCEPT !.full_name = n]
    /\ last' = Done("mutate_info", "ok", FALSE, NoKey, FALSE)
    /\ now' = now + 1
    /\ UNCHANGED <<users, nextId, related, qs, redis, rec, origin, tasks>>

\* record.update_cache(conn): CacheBase.update_cache
UpdateCache ==
    /\ now <= MaxClock
    /\ info # NoInfo
    /\ redis' = save_to_cache(redis, info)
    /\ last' = DoneQuery("update_cache", "ok",
                         cache_key(InfoCacheKey, info.email), FALSE, qs, 0)
    /\ now' = now + 1
    /\ UNCHANGED <<users, nextId, related, qs, rec, origin, info, tasks>>

\* The values a filtered update sets.
UpdateValues ==
    {[full_name |-> n] : n \in Names} \cup {[is_active |-> FALSE]}

\* User.objects.filter(full_name=n).update(**values): QuerySet.update, which
\* leaves the filter pending on the query set.
FilterUpdate(n, values, bind) ==
    /\ now <= MaxClock
    /\ users' = update(users, filter("full_name", n),
                       OnUpdateValues(values, bind, now))
    /\ qs' = filter("full_name", n)
    /\ last' = DoneQuery("filter_update", "ok", NoKey, FALSE,
                         filter("full_name", n), 0)
    /\ now' = now + 1
    /\ UNCHANGED <<nextId, related, redis, rec, origin, info, tasks>>

\* User.objects.filter(full_name=n).delete()
FilterDelete(n) ==
    /\ now <= MaxClock
    /\ users' = delete(users, filter("full_name", n))
    /\ profiles' = cascade(profiles, users')
    /\ phones' = cascade(phones, users')
    /\ qs' = NoFilter
    /\ last' = DoneQuery("filter_delete", "ok", NoKey, FALSE,
                         filter("full_name", n), 0)
    /\ now' = now + 1
    /\ UNCHANGED <<nextId, nextProfile, nextPhone, redis, rec, origin, info,
                   tasks>>

\* User.objects.delete(), no filter() before it: QuerySet.delete under
\* whatever is pending on the query set.
DeleteAll ==
    /\ now <= MaxClock
    /\ users' = delete(users, qs)
    /\ profiles' = cascade(profiles, users')
    /\ phones' = cascade(phones, users')
    /\ qs' = NoFilter
    /\ last' = DoneQuery("delete_all", "ok", NoKey, FALSE, qs, 0)
    /\ now' = now + 1
    /\ UNCHANGED <<nextId, nextProfile, nextPhone, redis, rec, origin, info,
                   tasks>>

\* Profile.objects.delete(): nothing is ever pending on the query set of
\* Profile, which get_data uses with filter(...).get() only.
ProfilesDelete ==
    /\ now <= MaxClock
    /\ profiles' = delete(profiles, NoFilter)
    /\ last' = DoneQuery("profiles_delete", "ok", NoKey, FALSE, NoFilter, 0)
    /\ now' = now + 1
    /\ UNCHANGED <<users, nextId, nextProfile, phones, nextPhone, qs, redis,
                   rec, origin, info, tasks>>

\* PhoneNumber.objects.delete(), likewise.
PhonesDelete ==
    /\ now <= MaxClock
    /\ phones' = delete(phones, NoFilter)
    /\ last' = DoneQuery("phones_delete", "ok", NoKey, FALSE, NoFilter, 0)
    /\ now' = now + 1
    /\ UNCHANGED <<users, nextId, profiles, nextProfile, nextPhone, qs, redis,
                   rec, origin, info, tasks>>

NextRead ==
    \/ \E e \in Emails : ReadGet(e)
    \/ \E n \in Names : MutateInfo(n)
    \/ UpdateCache
    \/ \E n \in Names, values \in UpdateValues, bind \in OnUpdateBinds :
            FilterUpdate(n, values, bind)
    \/ \E n \in Names : FilterDelete(n)
    \/ DeleteAll
    \/ ProfilesDelete
    \/ PhonesDelete
    \/ Delete
    \/ \E i \in 1..MaxId : Get(i)
    \/ \E n \in Names : Mutate("full_name", n)
    \/ \E c \in BOOLEAN : Save(c, "none")
    \/ \E kwargs \in CallerKwargs : Create(kwargs)

SpecRead == InitRead /\ [][NextRead]_vars

----------------------------------------------------------------------------
(* Claims checked under SpecRead.                                          *)

\* The field values of a UserInfo instance: every field but from_db.
Values(i) == [f \in InfoFields \ {"from_db"} |-> i[f]]

\* The hash the cache holds for field values d, on the fields of d.
Encoded(d) == RedisText(dict_to_redis_dict(d))

OnFields(entry, d) == [f \in DOMAIN d |-> entry[f]]

\* C4: a read-cache get that finds no entry calls get_data once, writes its
\* result to the cache and returns an instance with from_db true; one that
\* finds an entry calls nothing and returns an instance with from_db false
\* whose field values are the ones the entry encodes; a get of the same key
\* right after a miss is a hit that returns the same field values.
C4_ReadThrough ==
    [][(last'.op = "read_get" /\ last'.result = "ok") =>
        /\ ~last'.staged =>
            /\ last'.calls = 1
            /\ exists(redis', last'.key)
            /\ redis'[last'.key] = Encoded(Values(info'))
            /\ info'.from_db
        /\ last'.staged =>
            /\ last'.calls = 0
            /\ ~info'.from_db
            /\ OnFields(redis[last'.key], Values(info'))
                    = Encoded(Values(info'))
        /\ (last.op = "read_get" /\ last.result = "ok" /\ ~last.staged
                /\ last.key = last'.key) =>
            /\ last'.staged
            /\ Values(info') = Values(info)
      ]_vars

\* The operations that persist a change of the source entities.
Persistence ==
    {"create", "save", "filter_update", "filter_delete", "delete_all",
     "delete", "profiles_delete", "phones_delete"}

\* The entries of the read-cache tier.
ReadTier(cache) ==
    [k \in {x \in DOMAIN cache : x[1] = InfoCacheKey} |-> cache[k]]

\* Every read-cache entry holds what get_data produces from the store.
Fresh(rows, profs, phs, cache) ==
    \A k \in DOMAIN ReadTier(cache) :
        \E o \in get_data(rows, profs, phs, NoFilter, k[3]) :
            /\ o.ok
            /\ OnFields(cache[k], o.data) = Encoded(o.data)

\* C5 as stated: every persistence operation invalidates or refreshes the
\* read-cache entries it affects, so that entries holding what get_data
\* produces from the store before it hold what get_data produces after it.
C5_NeverStale ==
    [][(last'.op \in Persistence /\ Fresh(users, profiles, phones, redis))
            => Fresh(users', profiles', phones', redis')]_vars

\* C5, amended: no persistence operation changes an entry of the read-cache
\* tier; a get that hits returns what the entry decodes to and leaves it as
\* it is, and only a get that misses writes what get_data produces from the
\* store at that time.
C5_PersistenceLeavesReadTier ==
    [][/\ last'.op \in Persistence => ReadTier(redis') = ReadTier(redis)
       /\ (last'.op = "read_get" /\ last'.result = "ok") =>
            IF last'.staged
            THEN /\ redis' = redis
                 /\ info' = redis_text_to_info(redis[last'.key], FALSE)
            ELSE \E o \in get_data(users, profiles, phones, qs,
                                   last'.key[3]) :
                    /\ o.ok
                    /\ ReadTier(redis') =
                         [k \in DOMAIN ReadTier(redis) \cup {last'.key} |->
                            IF k = last'.key THEN Encoded(o.data)
                            ELSE redis[k]]
      ]_vars

\* A persistence operation has run and left an entry of the read-cache tier
\* that no longer holds what get_data produces.
C5_Witness ==
    /\ last.op \in Persistence
    /\ ReadTier(redis) # <<>>
    /\ ~Fresh(users, profiles, phones, redis)

\* The rows of rows a filter context does not select.
Unselected(rows, ctx) ==
    [i \in {j \in DOMAIN rows : ~Matches(rows[j], ctx)} |-> rows[i]]

\* The rows of a referencing table whose user is among rows.
Referencing(refs, rows) ==
    [i \in {j \in DOMAIN refs : refs[j].user_id \in DOMAIN rows} |-> refs[i]]

C37_NothingPendingAfterTerminal ==
    last.op \in {"get", "filter_update", "filter_delete", "delete_all",
                 "delete"}
        => /\ qs = NoFilter
           /\ Selected(users, qs) = DOMAIN users
----------------------------------------------------------------------------
(* The caller of test_cache_model from its first                            *)
(* UserInfo.objects.get("j@o.com", connection=conn) on: the record the get  *)
(* returned is in memory and its entry in the read-cache tier.              *)

InitCached ==
    /\ \E kwargs \in CallerKwargs :
        /\ kwargs.email = "j@o.com"
        /\ rec = TestUser(kwargs).rec
        /\ users = TestUser(kwargs).rows
    /\ nextId = 2
    /\ profiles = PutRow(<<>>, 1,
                         [id |-> 1, user_id |-> 1, addresses |-> TestAddresses])
    /\ nextProfile = 2
    /\ phones = PutRow(<<>>, 1,
                       [id |-> 1, user_id |-> 1, number |-> TestNumber])
    /\ nextPhone = 2
    /\ qs = NoFilter
    /\ \E o \in get_data(users, profiles, phones, NoFilter, "j@o.com") :
        /\ o.ok
        /\ redis = save_to_cache(<<>>, o.data)
        /\ info = redis_dict_to_info(o.data, TRUE)
    /\ origin = "create"
    /\ now = 2
    /\ last = Done("init", "ok", FALSE, NoKey, FALSE)
    /\ tasks = NoTasks

SpecCached == InitCached /\ [][NextRead]_vars

\* C18: a get of the key that follows update_cache of a record is a hit,
\* made without a get_data call, and returns the values the record had in
\* memory, whatever rows the tables hold.
C18_UpdateCacheThenHit ==
    [][(last.op = "update_cache" /\ last'.op = "read_get"
            /\ last'.key = last.key) =>
        /\ last'.staged
        /\ last'.calls = 0
        /\ info'.from_db = FALSE
        /\ \A f \in InfoFields \ {"from_db"} : info'[f] = info[f]
      ]_vars

----------------------------------------------------------------------------
(* QuerySet.bulk_create_or_insert on Profile (tests/test_orm.py,           *)
(* test_bulk_json_field_insert): the records are mappings, is_model=False.  *)

\* The addresses of the mappings, each written by its name.
BulkAddresses == {<<"Eleja 2">>, <<"Sunday">>}

\* The mappings a caller passes: user_id, addresses and, or not, an id.
BulkRecords ==
    {[user_id |-> 1, addresses |-> a] : a \in BulkAddresses}
    \cup {[id |-> i, user_id |-> 1, addresses |-> a] :
            i \in 0..MaxId, a \in BulkAddresses}

\* The lists of at most n mappings.
BulkLists(n) == UNION {[1..k -> BulkRecords] : k \in 0..n}

\* Base.build_db_dict of a mapping: every field of Profile by its column
\* name, instance.get(key) (None, written 0, for an id that is not there).
build_db_dict(instance) ==
    [id |-> IF "id" \in DOMAIN instance THEN instance.id ELSE 0,
     user_id |-> instance.user_id,
     addresses |-> instance.addresses]

\* bulk_create_or_insert: the statement it chooses, from the first of the
\* values.
bulk_plan(values, force_create) ==
    IF ~force_create /\ Truthy("int", values[1].id) THEN "update" ELSE "insert"

\* bulk_create_or_insert: `if i.get("id") in [0, None]: i.pop("id")`
bulk_pop_id(values) ==
    [k \in DOMAIN values |->
        IF values[k].id = 0 THEN Pop(values[k], "id") ELSE values[k]]

\* database.execute_many(query=sql, values=values) from the k-th of the
\* values on: the statement is run once for each of them, in order.  An
\* INSERT takes the id given or the next of the sequence and fails on an id
\* the table has; table.update() has no WHERE clause, so that an UPDATE sets
\* the values on every row of the table, and fails when it gives one id to
\* two rows.
RECURSIVE execute_many(_, _, _, _, _)
execute_many(plan, rows, nid, values, k) ==
    IF k > Len(values)
    THEN [ok |-> TRUE, rows |-> rows, nextId |-> nid]
    ELSE IF plan = "insert" /\ "id" \in DOMAIN values[k]
    THEN IF values[k].id \in DOMAIN rows
         THEN [ok |-> FALSE, rows |-> rows, nextId |-> nid]
         ELSE execute_many(plan, PutRow(rows, values[k].id, values[k]),
                           nid, values, k + 1)
    ELSE IF plan = "insert"
    THEN IF nid \in DOMAIN rows
         THEN [ok |-> FALSE, rows |-> rows, nextId |-> nid + 1]
         ELSE execute_many(plan,
                           PutRow(rows, nid, Merge(values[k], [id |-> nid])),
                           nid + 1, values, k + 1)
    ELSE IF "id" \in DOMAIN values[k]
    THEN IF Cardinality(DOMAIN rows) > 1
         THEN [ok |-> FALSE, rows |-> rows, nextId |-> nid]
         ELSE execute_many(plan,
                           [i \in {values[k].id : j \in DOMAIN rows} |->
                                values[k]],
                           nid, values, k + 1)
    ELSE execute_many(plan,
                      [i \in DOMAIN rows |-> Merge(rows[i], values[k])],
                      nid, values, k + 1)

\* What is kept of a bulk_create_or_insert call: how it ended, the
\* statement chosen, the records, their number, whether force_create was
\* passed and whether every one of the records carries a nonzero id.
DoneBulk(result, plan, records, force_create) ==
    [op |-> "bulk", result |-> result, conn |-> FALSE, key |-> NoKey,
     staged |-> FALSE, id0 |-> rec.id, plan |-> plan, len |-> Len(records),
     force |-> force_create, records |-> records,
     allIds |-> \A k \in DOMAIN records :
                    "id" \in DOMAIN records[k] /\ records[k].id # 0]

\* After clean_db() and user.save() at clock 1: one user, no profile.
InitBulk ==
    /\ rec = TestUser([full_name |-> "Abiola", email |-> "j@o.com"]).rec
    /\ users = TestUser([full_name |-> "Abiola", email |-> "j@o.com"]).rows
    /\ nextId = 2
    /\ profiles = <<>>
    /\ nextProfile = 1
    /\ phones = <<>>
    /\ nextPhone = 1
    /\ qs = NoFilter
    /\ redis = <<>>
    /\ origin = "new"
    /\ info = NoInfo
    /\ now = 2
    /\ last = Done("init", "ok", FALSE, NoKey, FALSE)
    /\ tasks = NoTasks

\* Profile.objects.bulk_create_or_insert(records, is_model=False,
\* force_create=...), the statements in one transaction: a failure rolls the
\* rows back (the sequence keeps the values it has handed out).
BulkCreateOrInsert(records, force_create) ==
    /\ now <= MaxClock
    /\ nextProfile + Len(records) - 1 <= MaxId
    /\ IF Len(records) = 0
       THEN /\ last' = DoneBulk("AssertionError", "none", records,
                                force_create)
            /\ UNCHANGED <<profiles, nextProfile>>
       ELSE LET values == [k \in DOMAIN records |-> build_db_dict(records[k])]
                plan == bulk_plan(values, force_create)
                r == execute_many(plan, profiles, nextProfile,
                                  bulk_pop_id(values), 1)
            IN  /\ profiles' = IF r.ok THEN r.rows ELSE profiles
                /\ nextProfile' = r.nextId
                /\ last' = DoneBulk(IF r.ok THEN "ok" ELSE "IntegrityError",
                                    plan, records, force_create)
    /\ now' = now + 1
    /\ UNCHANGED <<users, nextId, phones, nextPhone, qs, redis, rec, origin,
                   info, tasks>>

NextBulk ==
    \/ \E records \in BulkLists(MaxBulk), force_create \in BOOLEAN :
            BulkCreateOrInsert(records, force_create)
    \/ ProfilesDelete

SpecBulk == InitBulk /\ [][NextBulk]_vars

\* C10: bulk_create_or_insert on an empty list fails its precondition and
\* writes nothing; on a list it takes the update plan when every record
\* carries a nonzero identity and the insert plan otherwise, wherever in the
\* list the records with an identity stand.
C10_PlanFromAllRecords ==
    [][last'.op = "bulk" =>
        /\ last'.len = 0 =>
            /\ last'.result = "AssertionError"
            /\ profiles' = profiles
            /\ nextProfile' = nextProfile
        /\ (last'.len > 0 /\ ~last'.force) =>
            (last'.plan = "update" <=> last'.allIds)
      ]_vars

\* The last of the records that carries identity i.
LastWithId(records, i) ==
    records[CHOOSE k \in DOMAIN records :
                /\ records[k].id = i
                /\ \A j \in DOMAIN records : records[j].id = i => j <= k]

\* C11: when bulk_create_or_insert runs the update plan on records that all
\* carry an identity, each record changes the row of that identity and no
\* other: the table keeps its identities, a row whose identity no record
\* carries stays as it is, and a row whose identity a record carries takes
\* the values of that record.
C11_UpdateKeyedByIdentity ==
    [][(last'.op = "bulk" /\ last'.plan = "update" /\ last'.allIds
            /\ last'.result = "ok") =>
        /\ DOMAIN profiles' = DOMAIN profiles
        /\ \A i \in DOMAIN profiles :
            IF \E k \in DOMAIN last'.records : last'.records[k].id = i
            THEN profiles'[i] = build_db_dict(LastWithId(last'.records, i))
            ELSE profiles'[i] = profiles[i]
      ]_vars

----------------------------------------------------------------------------
(* orm/queryset.py: QuerySet.filter, the compilation of keyword filters    *)
(* into a query, for the entities of tests/models.py.                       *)

\* Field metadata: the declared fields of each entity, its table, the
\* columns of the table (a relationship field is kept in the column
\* table_config names), and the fields of relationship and JSON kind.
\* Contact is an entity declared the way PhoneNumber is, with two
\* relationship fields: user: fields.Foreign(User) in column user_id and
\* profile: fields.Foreign(Profile) in column profile_id.
EntityFields ==
    [User |-> UserFields,
     PhoneNumber |-> {"id", "number", "user"},
     Profile |-> {"id", "addresses", "user"},
     Contact |-> {"id", "user", "profile"}]

EntityTable ==
    [User |-> "users", PhoneNumber |-> "phone_numbers",
     Profile |-> "profiles", Contact |-> "contacts"]

TableColumns ==
    [users |-> UserFields,
     phone_numbers |-> {"id", "number", "user_id"},
     profiles |-> {"id", "addresses", "user_id"},
     contacts |-> {"id", "user_id", "profile_id"}]

\* Base.is_related_field, Base.is_json_field: of a declared field (the
\* lookup of a name that is not a declared field raises KeyError).
is_related_field(cls, field) ==
    \/ cls \in {"PhoneNumber", "Profile", "Contact"} /\ field = "user"
    \/ cls = "Contact" /\ field = "profile"

is_json_field(cls, field) == cls = "Profile" /\ field = "addresses"

\* Base.get_related_field_class: the entity a relationship field refers
\* to, the entity itself for any other field.
get_related_field_class(cls, key) ==
    IF is_related_field(cls, key)
    THEN (IF key = "profile" THEN "Profile" ELSE "User")
    ELSE cls

\* FILTER_OPERATORS and JSON_OPERATORS, their keys.
FILTER_OPERATORS ==
    {"exact", "iexact", "contains", "icontains", "in", "gt", "gte", "lt", "lte"}

JSON_OPERATORS ==
    {"contained_by", "contains", "icontains", "has_all", "has_any", "has_key"}

\* The characters of the texts rows and filter values are made of.
TextChars ==
    ("Eleja 2" :> <<"E", "l", "e", "j", "a", " ", "2">>)
    @@ ("Sunday 2" :> <<"S", "u", "n", "d", "a", "y", " ", "2">>)
    @@ ("Sunday" :> <<"S", "u", "n", "d", "a", "y">>)
    @@ ("sun" :> <<"s", "u", "n">>)
    @@ ("Sun" :> <<"S", "u", "n">>)
    @@ ("2" :> <<"2">>)
    @@ ("_" :> <<"_">>)
    @@ ("Abiola" :> <<"A", "b", "i", "o", "l", "a">>)
    @@ ("Shola" :> <<"S", "h", "o", "l", "a">>)
    @@ ("ola" :> <<"o", "l", "a">>)
    @@ ("abi" :> <<"a", "b", "i">>)
    @@ ("Eleja\\2" :> <<"E", "l", "e", "j", "a", "\\", "2">>)
    @@ ("Sh\\ola" :> <<"S", "h", "\\", "o", "l", "a">>)
    @@ ("\\" :> <<"\\">>)
    @@ ("\\_" :> <<"\\", "_">>)

\* The lower-case form of a character, as ILIKE folds it.
LowerChar(c) ==
    CASE c = "A" -> "a" [] c = "E" -> "e" [] c = "S" -> "s" [] OTHER -> c

Lower(chars) == [i \in DOMAIN chars |-> LowerChar(chars[i])]

\* QuerySet.ESCAPE_CHARACTERS
ESCAPE_CHARACTERS == {"%", "_"}

\* value.replace(char, "\\" + char) for the two escape characters.
RECURSIVE EscapeChars(_)
EscapeChars(chars) ==
    IF chars = <<>> THEN <<>>
    ELSE (IF Head(chars) \in ESCAPE_CHARACTERS
          THEN <<"\\", Head(chars)>> ELSE <<Head(chars)>>)
         \o EscapeChars(Tail(chars))

\* The pattern filter builds for contains / icontains: the value, its escape
\* characters escaped when it has any, between two "%".
LikePattern(chars) ==
    <<"%">>
    \o (IF \E i \in DOMAIN chars : chars[i] \in ESCAPE_CHARACTERS
        THEN EscapeChars(chars) ELSE chars)
    \o <<"%">>

\* text LIKE pattern in the store: "%" stands for any run of characters,
\* "_" for any one character, and the character after a backslash (the
\* escape character, also when none is named) for itself.
RECURSIVE Like(_, _)
Like(s, p) ==
    IF p = <<>> THEN s = <<>>
    ELSE IF Head(p) = "\\" /\ Len(p) > 1
    THEN s # <<>> /\ Head(s) = p[2] /\ Like(Tail(s), Tail(Tail(p)))
    ELSE IF Head(p) = "%"
    THEN Like(s, Tail(p)) \/ (s # <<>> /\ Like(Tail(s), p))
    ELSE IF Head(p) = "_"
    THEN s # <<>> /\ Like(Tail(s), Tail(p))
    ELSE s # <<>> /\ Head(s) = Head(p) /\ Like(Tail(s), Tail(p))

\* text ILIKE pattern
ILike(s, p) == Like(Lower(s), Lower(p))

\* A keyword of filter(**kwargs): the key, split at "__" into its parts, and
\* the value with its Python type, a text (str) or a mapping (dict).
NoMap == [k \in {} |-> ""]

Kw(parts, type, v) ==
    [key |-> parts,
     value |-> [type |-> type,
                text |-> IF type = "str" THEN v ELSE "",
                map |-> IF type = "dict" THEN v ELSE NoMap]]

Last(parts) == parts[Len(parts)]

\* filter: the operator, the field name and the related parts of a key.
HasOperator(parts) == Len(parts) > 1 /\ Last(parts) \in FILTER_OPERATORS

FilterOp(parts) == IF HasOperator(parts) THEN Last(parts) ELSE "exact"

FieldName(parts) ==
    IF HasOperator(parts) THEN parts[Len(parts) - 1] ELSE Last(parts)

RelatedParts(parts) ==
    IF HasOperator(parts) THEN SubSeq(parts, 1, Len(parts) - 2)
    ELSE SubSeq(parts, 1, Len(parts) - 1)

\* "__".join(related_parts) names a declared field only when there is one
\* part and it is declared.
DeclaredPath(cls, path) == Len(path) = 1 /\ path[1] \in EntityFields[cls]

InSeq(x, seq) == \E i \in DOMAIN seq : seq[i] = x

\* filter: "Walk the relationships to the actual model class".
RECURSIVE WalkRelated(_, _)
WalkRelated(cls, path) ==
    IF path = <<>> THEN cls
    ELSE WalkRelated(get_related_field_class(cls, Head(path)), Tail(path))

\* A variant of the accumulation that appends the path whether or not the
\* list holds it.
select_related_always_append(select_related, related_str) ==
    Append(select_related, related_str)

\* filter: "Add any implied select_related", for a path that is a
\* relationship: appended unless the list holds it.
select_related_append(select_related, related_str) ==
    IF InSeq(related_str, select_related) THEN select_related
    ELSE Append(select_related, related_str)

\* No clause, and the outcome of a key whose compilation raises KeyError.
NoClause ==
    [kind |-> "none", table |-> "", column |-> "", key |-> "",
     value |-> [type |-> "none", text |-> "", map |-> NoMap], pattern |-> <<>>, escape |-> FALSE]

KeyErrorAt(select_related) ==
    [error |-> "KeyError", select_related |-> select_related,
     clause |-> NoClause]

\* filter: the clause built on a JSON column (json_filter: the sub-key).
\* For contains / icontains a mapping is tested for containment, any other
\* value is wrapped into a pattern and matched, ignoring case, against the
\* text under the sub-key; any other operator compares that text for
\* equality.
JsonClause(table, json_column, json_filter, op, value) ==
    IF op \in JSON_OPERATORS
    THEN IF value.type = "dict"
         THEN [kind |-> "json_contains", table |-> table,
               column |-> json_column, key |-> json_filter, value |-> value,
               pattern |-> <<>>, escape |-> FALSE]
         ELSE [kind |-> "json_ilike", table |-> table,
               column |-> json_column, key |-> json_filter, value |-> value,
               pattern |-> LikePattern(TextChars[value.text]), escape |-> FALSE]
    ELSE [kind |-> "json_eq", table |-> table, column |-> json_column,
          key |-> json_filter, value |-> value, pattern |-> <<>>,
          escape |-> FALSE]

\* filter: the clause built on a column that is not JSON,
\* getattr(column, FILTER_OPERATORS[op])(value): for contains / icontains
\* the value is wrapped into a pattern, and the escape modifier is set when
\* the value holds an escape character.
ColumnClause(table, column, op, value) ==
    IF op \in {"contains", "icontains"}
    THEN [kind |-> IF op = "contains" THEN "like" ELSE "ilike",
          table |-> table, column |-> column, key |-> "", value |-> value,
          pattern |-> LikePattern(TextChars[value.text]),
          escape |-> \E i \in DOMAIN TextChars[value.text] :
                        TextChars[value.text][i] \in ESCAPE_CHARACTERS]
    ELSE [kind |-> op, table |-> table, column |-> column, key |-> "",
          value |-> value, pattern |-> <<>>, escape |-> FALSE]

\* filter, the body of its loop for one keyword: what becomes of
\* select_related and the clause appended, or an error: KeyError for a name
\* that is no declared field or no column, and the error of indexing a
\* column that is not JSON by a sub-key, which is written KeyError as well.
compile_key(cls, select_related, kw) ==
    LET parts == kw.key
        op == FilterOp(parts)
        field_name == FieldName(parts)
        related_parts == RelatedParts(parts)
        table == EntityTable[cls]
    IN  IF Len(parts) = 1
        THEN IF parts[1] \in TableColumns[table]
             THEN [error |-> "", select_related |-> select_related,
                   clause |-> [kind |-> "exact", table |-> table,
                               column |-> parts[1], key |-> "",
                               value |-> kw.value, pattern |-> <<>>,
                               escape |-> FALSE]]
             ELSE KeyErrorAt(select_related)
        ELSE IF related_parts = <<>>
        THEN IF field_name \notin EntityFields[cls]
             THEN KeyErrorAt(select_related)
             ELSE IF is_json_field(cls, field_name)
             THEN [error |-> "", select_related |-> select_related,
                   clause |-> JsonClause(table, field_name, field_name, op,
                                         kw.value)]
             ELSE IF field_name \in TableColumns[table]
             THEN [error |-> "", select_related |-> select_related,
                   clause |-> ColumnClause(table, field_name, op, kw.value)]
             ELSE KeyErrorAt(select_related)
        ELSE IF InSeq(related_parts, select_related)
                \/ (DeclaredPath(cls, related_parts)
                    /\ is_related_field(cls, related_parts[1]))
        THEN LET model_cls == WalkRelated(cls, related_parts)
                 joined == select_related_append(select_related,
                                                 related_parts)
             IN  IF field_name \in TableColumns[EntityTable[model_cls]]
                 THEN [error |-> "", select_related |-> joined,
                       clause |-> ColumnClause(EntityTable[model_cls],
                                               field_name, op, kw.value)]
                 ELSE KeyErrorAt(joined)
        ELSE IF DeclaredPath(cls, related_parts)
                /\ is_json_field(cls, related_parts[1])
        THEN [error |-> "", select_related |-> select_related,
              clause |-> JsonClause(table, related_parts[1], field_name, op,
                                    kw.value)]
        ELSE KeyErrorAt(select_related)

\* filter, its loop over the keywords from the k-th on: the select_related
\* list and the clauses it ends with, or the error that stops it.
RECURSIVE compile_from(_, _, _, _, _)
compile_from(cls, kwargs, k, select_related, filter_clauses) ==
    IF k > Len(kwargs)
    THEN [error |-> "", select_related |-> select_related,
          filter_clauses |-> filter_clauses]
    ELSE LET r == compile_key(cls, select_related, kwargs[k])
         IN  IF r.error # ""
             THEN [error |-> r.error, select_related |-> r.select_related,
                   filter_clauses |-> filter_clauses]
             ELSE compile_from(cls, kwargs, k + 1, r.select_related,
                               Append(filter_clauses, r.clause))

\* The tables a relationship path leads through, from entity cls.
RECURSIVE PathTables(_, _)
PathTables(cls, path) ==
    IF path = <<>> THEN <<>>
    ELSE <<EntityTable[get_related_field_class(cls, Head(path))]>>
         \o PathTables(get_related_field_class(cls, Head(path)), Tail(path))

RECURSIVE AllPathTables(_, _)
AllPathTables(cls, select_related) ==
    IF select_related = <<>> THEN <<>>
    ELSE PathTables(cls, Head(select_related))
         \o AllPathTables(cls, Tail(select_related))

\* QuerySet.build_select_expression: the tables selected (the table of the
\* entity, then those of every path), the join selected from (select_from
\* starts again from the table of the entity at every path, so that it ends
\* as the join along the last path), and the clauses of the WHERE.
build_select_expression(cls, filter_clauses, select_related) ==
    [tables |-> <<EntityTable[cls]>> \o AllPathTables(cls, select_related),
     select_from |->
        <<EntityTable[cls]>>
        \o (IF select_related = <<>> THEN <<>>
            ELSE PathTables(cls, Last(select_related))),
     where |-> filter_clauses]

\* QuerySet.filter(**kwargs): the query it leaves pending, or the error.
compile_filter(cls, kwargs) ==
    LET r == compile_from(cls, kwargs, 1, <<>>, <<>>)
    IN  [error |-> r.error,
         select_related |-> r.select_related,
         query |-> build_select_expression(cls, r.filter_clauses,
                                           r.select_related)]

----------------------------------------------------------------------------
(* The store's evaluation of a compiled query.                             *)

\* The rows of a table.
TableRows(table) ==
    CASE table = "users" -> users
      [] table = "profiles" -> profiles
      [] OTHER -> phones

\* Whether a clause holds on a row of the clause's table, for the clauses
\* over text and mappings: equality, LIKE, ILIKE, and on a JSON column the
\* text under a sub-key (column ->> key, NULL when the key is not there)
\* and containment (column @> mapping).
HoldsOn(c, row) ==
    CASE c.kind = "exact" -> row[c.column] = c.value.text
      [] c.kind = "like" -> Like(TextChars[row[c.column]], c.pattern)
      [] c.kind = "ilike" -> ILike(TextChars[row[c.column]], c.pattern)
      [] c.kind = "json_eq" ->
            /\ c.key \in DOMAIN row[c.column]
            /\ row[c.column][c.key] = c.value.text
      [] c.kind = "json_ilike" ->
            /\ c.key \in DOMAIN row[c.column]
            /\ ILike(TextChars[row[c.column][c.key]], c.pattern)
      [] c.kind = "json_contains" ->
            \A k \in DOMAIN c.value.map :
                k \in DOMAIN row[c.column] /\ row[c.column][k] = c.value.map[k]

\* The identities of the rows of the entity's table a query selects: the
\* row, joined to the row of users its user_id refers to when the query
\* selects from that join, satisfies every clause of the WHERE.
SelectedBy(query) ==
    LET root == query.select_from[1]
        rows == TableRows(root)
        joins == Len(query.select_from) > 1
    IN  {i \in DOMAIN rows :
            /\ joins => rows[i].user_id \in DOMAIN users
            /\ \A k \in DOMAIN query.where :
                HoldsOn(query.where[k],
                        IF query.where[k].table = root THEN rows[i]
                        ELSE users[rows[i].user_id])}

----------------------------------------------------------------------------
(* The caller of tests/test_orm.py, test_foreign_key_relationship and      *)
(* test_json_field_query: two users, their phone numbers and profiles, and *)
(* filtered queries on the three entities.                                  *)

\* The addresses of the three profiles: mappings, as in
\* test_json_field_query, the third with one more key, whose text has a
\* backslash in it.
QueryAddresses ==
    <<[name |-> "Eleja 2"], [name |-> "Sunday 2"],
      [name |-> "Sunday", town |-> "Eleja\\2"]>>

OtherNumber == "+2348033223323"

\* The keywords the caller filters with, by entity.
FilterKwargs ==
    [User |->
        {<<Kw(<<"full_name">>, "str", n)>> : n \in Names}
        \cup {<<Kw(<<"full_name", op>>, "str", v)>> :
                op \in {"contains", "icontains"},
                v \in {"ola", "abi", "_", "\\", "\\_"}}
        \cup {<<Kw(<<"nickname">>, "str", "ola")>>},
     PhoneNumber |->
        {<<Kw(<<"user", "full_name">>, "str", n)>> : n \in Names}
        \cup {<<Kw(<<"user", "full_name">>, "str", n),
                Kw(<<"user", "email">>, "str", e)>> :
                n \in Names, e \in Emails}
        \cup {<<Kw(<<"user", "full_name", "icontains">>, "str", "abi"),
                Kw(<<"number">>, "str", OtherNumber)>>,
              <<Kw(<<"number">>, "str", TestNumber),
                Kw(<<"user", "email">>, "str", "j@o.com")>>,
              <<Kw(<<"user", "nickname">>, "str", "ola")>>},
     Profile |->
        {<<Kw(<<"addresses", "name">>, "str", v)>> : v \in {"Sunday", "sun"}}
        \cup {<<Kw(<<"addresses", "name", op>>, "str", v)>> :
                op \in {"contains", "icontains"},
                v \in {"2", "sun", "Sun", "_"}}
        \cup {<<Kw(<<"addresses", "town", "icontains">>, "str", v)>> :
                v \in {"2", "\\"}}
        \cup {<<Kw(<<"addresses", "contains">>, "dict", m)>> :
                m \in {[name |-> "Sunday"], [name |-> "Sunday 2"],
                       [town |-> "Eleja\\2"],
                       [name |-> "Sunday", town |-> "Eleja\\2"]}}
        \cup {<<Kw(<<"user", "email">>, "str", e)>> : e \in Emails}
        \cup {<<Kw(<<"user", "email">>, "str", e),
                Kw(<<"addresses", "name", "icontains">>, "str", "sun"),
                Kw(<<"user", "full_name">>, "str", "Abiola")>> :
                e \in Emails}]

\* No record: what get() returns when no row is selected.
NoRow == [id |-> -1, user |-> NoRec]

\* What is kept of cls.objects.filter(**kwargs) followed by count() or
\* get(): the context pending on User.objects when it began, what filter
\* compiled, the identities the query selects in the store, and the count
\* or the record returned.
DoneFilter(op, result, cls, kwargs, compiled, selected, count, record) ==
    [op |-> op, result |-> result, cls |-> cls, kwargs |-> kwargs,
     ctx |-> qs, select_related |-> compiled.select_related,
     query |-> compiled.query, selected |-> selected, count |-> count,
     record |-> record]

InitFilter ==
    /\ \E n \in {"Shola", "Sh\\ola"} :
        users = UsersAfterCreate(
                    UsersAfterCreate(<<>>, 1,
                        [full_name |-> "Abiola", email |-> "j@o.com"], 1),
                    2, [full_name |-> n, email |-> "k@o.com"], 1)
    /\ nextId = 3
    /\ profiles = [i \in 1..3 |->
                        [id |-> i, user_id |-> IF i = 3 THEN 2 ELSE 1,
                         addresses |-> QueryAddresses[i]]]
    /\ nextProfile = 4
    /\ phones = [i \in 1..2 |->
                    [id |-> i, user_id |-> i,
                     number |-> IF i = 1 THEN TestNumber ELSE OtherNumber]]
    /\ nextPhone = 3
    /\ qs = NoFilter
    /\ redis = <<>>
    /\ rec = NoRec
    /\ origin = "none"
    /\ info = NoInfo
    /\ now = 2
    /\ last = Done("init", "ok", FALSE, NoKey, FALSE)
    /\ tasks = NoTasks

\* What a filter on User.objects leaves pending on that query set once the
\* chained count() or get() has run: nothing; what was pending stays when
\* filter raised.  The query sets of the other entities are used with
\* filter(...) first everywhere, so that nothing pending on them is kept.
PendingAfter(cls, compiled) ==
    IF cls = "User" /\ compiled.error # "" THEN qs ELSE NoFilter

\* n = cls.objects.filter(**kwargs).count()
FilterCount(cls, kwargs) ==
    /\ now <= MaxClock
    /\ LET compiled == compile_filter(cls, kwargs)
       IN  IF compiled.error # ""
           THEN /\ last' = DoneFilter("filter_count", compiled.error, cls,
                                      kwargs, compiled, {}, 0, NoRow)
                /\ UNCHANGED qs
           ELSE /\ last' = DoneFilter("filter_count", "ok", cls, kwargs,
                                      compiled, SelectedBy(compiled.query),
                                      Cardinality(SelectedBy(compiled.query)),
                                      NoRow)
                /\ qs' = IF cls = "User" THEN NoFilter ELSE qs
    /\ now' = now + 1
    /\ UNCHANGED <<users, nextId, related, redis, rec, origin, info, tasks>>

\* What a class does with a relationship field given None.
NoneRelated == {"accepted", "ValidationError"}

\* record = cls.objects.filter(**kwargs).get(): one of the selected rows
\* (fetch_one, no ORDER BY) as a record, as_klass: the relationship field is
\* looked up with User.objects.get(id=user_id), which is subject to what is
\* pending on User.objects and leaves nothing pending.  The row of a join
\* carries two columns named id, and the record takes the value of either.
FilterGet(cls, kwargs, none_related) ==
    /\ now <= MaxClock
    /\ LET compiled == compile_filter(cls, kwargs)
           selected == SelectedBy(compiled.query)
           rows == TableRows(EntityTable[cls])
       IN  IF compiled.error # ""
           THEN /\ last' = DoneFilter("filter_get", compiled.error, cls,
                                      kwargs, compiled, {}, 0, NoRow)
                /\ UNCHANGED qs
           ELSE IF selected = {}
           THEN /\ last' = DoneFilter("filter_get", "ok", cls, kwargs,
                                      compiled, selected, 0, NoRow)
                /\ qs' = IF cls = "User" THEN NoFilter ELSE qs
           ELSE IF cls = "User"
           THEN /\ \E i \in selected :
                    last' = DoneFilter("filter_get", "ok", cls, kwargs,
                                       compiled, selected, 0, klass(users[i]))
                /\ qs' = NoFilter
           ELSE /\ \E i \in selected :
                   \E _id \in IF Len(compiled.query.select_from) > 1
                              THEN {i, rows[i].user_id} ELSE {i} :
                    LET found == get(users, qs, filter("id", rows[i].user_id))
                        record == Merge(Pop(rows[i], "user_id"), [id |-> _id])
                    IN  IF found = {}
                        THEN last' = DoneFilter("filter_get",
                                  IF none_related = "accepted" THEN "ok"
                                  ELSE none_related,
                                  cls, kwargs, compiled, selected, 0,
                                  IF none_related = "accepted"
                                  THEN Merge(record, [user |-> NoRec])
                                  ELSE NoRow)
                        ELSE \E u \in found :
                              last' = DoneFilter("filter_get", "ok", cls,
                                  kwargs, compiled, selected, 0,
                                  Merge(record, [user |-> klass(users[u])]))
                /\ qs' = NoFilter
    /\ now' = now + 1
    /\ UNCHANGED <<users, nextId, related, redis, rec, origin, info, tasks>>

\* What is kept of PhoneNumber.objects.create(user_id=k, number=n): the
\* context pending on User.objects when it began and the record returned.
DoneCreate(result, k, record) ==
    [op |-> "create_phone", result |-> result, user_id |-> k, ctx |-> qs,
     record |-> record]

\* record = PhoneNumber.objects.create(user_id=k, number=n): transform_kwargs
\* puts User.objects.get(id=k) under the key user, a get that is subject to
\* what is pending on User.objects and leaves nothing pending; the record
\* is built and saved, build_db_save_params giving the column user_id the
\* id of the user, and no value when there is no user.
CreatePhone(k, n, none_related) ==
    /\ now <= MaxClock
    /\ LET found == get(users, qs, filter("id", k))
       IN  IF found = {}
           THEN IF none_related = "accepted"
                THEN /\ phones' = PutRow(phones, nextPhone,
                                         [id |-> nextPhone, number |-> n,
                                          user_id |-> 0])
                     /\ nextPhone' = nextPhone + 1
                     /\ last' = DoneCreate("ok", k,
                                    [id |-> nextPhone, number |-> n,
                                     user |-> NoRec])
                ELSE /\ last' = DoneCreate(none_related, k, NoRow)
                     /\ UNCHANGED <<phones, nextPhone>>
           ELSE \E u \in found :
                /\ phones' = PutRow(phones, nextPhone,
                                    [id |-> nextPhone, number |-> n,
                                     user_id |-> users[u].id])
                /\ nextPhone' = nextPhone + 1
                /\ last' = DoneCreate("ok", k,
                               [id |-> nextPhone, number |-> n,
                                user |-> klass(users[u])])
    /\ qs' = NoFilter
    /\ now' = now + 1
    /\ UNCHANGED <<users, nextId, profiles, nextProfile, redis, rec, origin,
                   info, tasks>>

NextFilter ==
    \/ \E cls \in DOMAIN FilterKwargs :
            \E kwargs \in FilterKwargs[cls] : FilterCount(cls, kwargs)
    \/ \E cls \in DOMAIN FilterKwargs, none_related \in NoneRelated :
            \E kwargs \in FilterKwargs[cls] :
                FilterGet(cls, kwargs, none_related)
    \/ \E n \in Names, bind \in OnUpdateBinds :
            FilterUpdate(n, [full_name |-> n], bind)
    \/ \E k \in 1..MaxId, none_related \in NoneRelated :
            CreatePhone(k, OtherNumber, none_related)

SpecFilter == InitFilter /\ [][NextFilter]_vars

----------------------------------------------------------------------------
(* Properties of filtered queries.                                          *)

\* The relationship paths the keywords of a filter on entity cls refer to.
RelationshipPaths(cls, kwargs) ==
    {RelatedParts(kwargs[k].key) : k \in DOMAIN kwargs}
    \cap {<<f>> : f \in {g \in EntityFields[cls] : is_related_field(cls, g)}}

\* The places of a path in a list of paths.
Places(path, paths) == {i \in DOMAIN paths : paths[i] = path}

\* C12: a filter that compiles has exactly one implied join for each
\* distinct relationship path its keywords refer to, whatever the number of
\* keywords referring to the path, and a further keyword on a path already
\* referred to leaves the list of implied joins as it was.
C12_OneJoinPerPath ==
    (last.op \in {"filter_count", "filter_get"} /\ last.result # "KeyError") =>
        /\ \A path \in RelationshipPaths(last.cls, last.kwargs) :
            Cardinality(Places(path, last.select_related)) = 1
        /\ \A i \in DOMAIN last.select_related :
            last.select_related[i] \in RelationshipPaths(last.cls, last.kwargs)
        /\ Len(last.query.tables) = 1 + Len(last.select_related)
        /\ Len(last.query.select_from) = 1 + Len(last.select_related)
        /\ \A k \in 2..Len(last.kwargs) :
            (\E j \in 1..(k - 1) : RelatedParts(last.kwargs[j].key)
                                    = RelatedParts(last.kwargs[k].key))
            => compile_filter(last.cls, SubSeq(last.kwargs, 1, k)).select_related
               = compile_filter(last.cls,
                                SubSeq(last.kwargs, 1, k - 1)).select_related

\* A filter with three keywords, two of them on one relationship path and
\* not next to each other, has compiled into a query with one join.
C12_Witness ==
    /\ last.op = "filter_count"
    /\ last.result = "ok"
    /\ Len(last.kwargs) = 3
    /\ RelatedParts(last.kwargs[1].key) = <<"user">>
    /\ RelatedParts(last.kwargs[3].key) = <<"user">>
    /\ last.select_related = <<(<<"user">>)>>
    /\ last.query.select_from = <<"profiles", "users">>

\* The rows of an entity's table whose related user has a field equal to a
\* text.
RelatedHas(cls, field, text) ==
    {i \in DOMAIN TableRows(EntityTable[cls]) :
        /\ TableRows(EntityTable[cls])[i].user_id \in DOMAIN users
        /\ users[TableRows(EntityTable[cls])[i].user_id][field] = text}

\* A filter of one keyword user__field = text.
OverRelationship(kwargs) ==
    /\ Len(kwargs) = 1
    /\ Len(kwargs[1].key) = 2
    /\ kwargs[1].key[1] = "user"
    /\ kwargs[1].key[2] \in UserFields

\* C13: filter(user__field=v) selects exactly the rows of the entity whose
\* user, the row of users with the identity in their user_id, has field = v,
\* and the record get() returns has that user as its user field.
C13_RelatedSelectedAndHydrated ==
    (last.op \in {"filter_count", "filter_get"}
        /\ OverRelationship(last.kwargs)) =>
        /\ last.selected = RelatedHas(last.cls, last.kwargs[1].key[2],
                                      last.kwargs[1].value.text)
        /\ (last.op = "filter_get" /\ last.selected # {}) =>
            /\ last.result = "ok"
            /\ \E i \in last.selected :
                last.record.user
                    = klass(users[TableRows(EntityTable[last.cls])[i].user_id])

\* Whether a text holds another as a run of consecutive characters.
Holds(chars, sub) ==
    \E a \in 0..(Len(chars) - Len(sub)) :
        SubSeq(chars, a + 1, a + Len(sub)) = sub

\* A filter of one keyword column__key__icontains = text on Profile.
OverSubKey(kwargs) ==
    /\ Len(kwargs) = 1
    /\ Len(kwargs[1].key) = 3
    /\ is_json_field("Profile", kwargs[1].key[1])
    /\ kwargs[1].key[3] = "icontains"
    /\ kwargs[1].value.type = "str"

\* C14: filter(col__key__icontains=v) on a JSON column selects exactly the
\* rows whose value under the sub-key holds v as a substring, the case of
\* the letters ignored.
C14_SubKeyIcontains ==
    (last.op \in {"filter_count", "filter_get"} /\ last.cls = "Profile"
        /\ OverSubKey(last.kwargs)) =>
        last.selected =
            {i \in DOMAIN profiles :
                /\ last.kwargs[1].key[2] \in DOMAIN profiles[i].addresses
                /\ Holds(Lower(TextChars[
                            profiles[i].addresses[last.kwargs[1].key[2]]]),
                         Lower(TextChars[last.kwargs[1].value.text]))}

\* A filter of one keyword column__contains = value.
ContainsOver(kwargs, column, type) ==
    /\ Len(kwargs) = 1
    /\ kwargs[1].key = <<column, "contains">>
    /\ kwargs[1].value.type = type

\* C15: contains with a mapping on a JSON column selects exactly the rows
\* whose value holds every key of the mapping with the mapping's value, and
\* contains with a text on a text column selects exactly the rows whose
\* value holds the text as a substring.
C15_ContainsByTargetKind ==
    /\ (last.op \in {"filter_count", "filter_get"} /\ last.cls = "Profile"
            /\ ContainsOver(last.kwargs, "addresses", "dict")) =>
        last.selected =
            {i \in DOMAIN profiles :
                \A k \in DOMAIN last.kwargs[1].value.map :
                    /\ k \in DOMAIN profiles[i].addresses
                    /\ profiles[i].addresses[k] = last.kwargs[1].value.map[k]}
    /\ (last.op \in {"filter_count", "filter_get"} /\ last.cls = "User"
            /\ ContainsOver(last.kwargs, "full_name", "str")) =>
        last.selected =
            {i \in DOMAIN users :
                Holds(TextChars[users[i].full_name],
                      TextChars[last.kwargs[1].value.text])}

\* C20: create(user_id=k) on PhoneNumber, a user with id k being in the
\* store, writes a row whose user_id is k and returns a record whose user
\* field is that user.
C20_CreateByColumnName ==
    [][(last'.op = "create_phone" /\ last'.user_id \in DOMAIN users) =>
        /\ last'.result = "ok"
        /\ DOMAIN phones' = DOMAIN phones \cup {last'.record.id}
        /\ last'.record.id \notin DOMAIN phones
        /\ phones'[last'.record.id].user_id = last'.user_id
        /\ last'.record.user = klass(users[last'.user_id])
      ]_vars


\* C26: a filtered update filter(F).update(values) sets every field that
\* has an onupdate callable to the callable's value on every row it
\* updates, also when the field is not among the values passed.
C26_UpdateSetsOnUpdateFields ==
    [][last'.op = "filter_update"
        => \A i \in Selected(users, last'.ctx) :
            \A f \in UserFields :
                user_table_config[f].onupdate => users'[i][f] = now]_vars

\* A filter of one keyword column__key__contains = text on a JSON column
\* of Profile.
ContainsOverSubKey(kwargs) ==
    /\ Len(kwargs) = 1
    /\ Len(kwargs[1].key) = 3
    /\ is_json_field("Profile", kwargs[1].key[1])
    /\ kwargs[1].key[3] = "contains"
    /\ kwargs[1].value.type = "str"

\* C29: filter(col__key__contains=v) on a JSON column selects exactly the
\* rows whose value under the sub-key holds v as a substring with the same
\* case of letters ("sun" is not in "Sunday"); only icontains ignores case.
C29_SubKeyContainsMatchesCase ==
    (last.op \in {"filter_count", "filter_get"} /\ last.cls = "Profile"
        /\ ContainsOverSubKey(last.kwargs)) =>
        last.selected =
            {i \in DOMAIN profiles :
                /\ last.kwargs[1].key[2] \in DOMAIN profiles[i].addresses
                /\ Holds(TextChars[
                            profiles[i].addresses[last.kwargs[1].key[2]]],
                         TextChars[last.kwargs[1].value.text])}

\* A filter of one keyword full_name__contains or full_name__icontains on
\* User whose text has "%" or "_" in it.
WildcardLiteral(kwargs) ==
    /\ Len(kwargs) = 1
    /\ Len(kwargs[1].key) = 2
    /\ kwargs[1].key[1] = "full_name"
    /\ kwargs[1].key[2] \in {"contains", "icontains"}
    /\ kwargs[1].value.type = "str"
    /\ \E i \in DOMAIN TextChars[kwargs[1].value.text] :
            TextChars[kwargs[1].value.text][i] \in {"%", "_"}

\* C30: contains and icontains with a text that has "%" or "_" in it select
\* exactly the rows whose value holds that text as a plain substring: the
\* two characters stand for themselves only.
C30_WildcardsMatchThemselves ==
    (last.op \in {"filter_count", "filter_get"} /\ last.cls = "User"
        /\ WildcardLiteral(last.kwargs)) =>
        last.selected =
            {i \in DOMAIN users :
                IF last.kwargs[1].key[2] = "contains"
                THEN Holds(TextChars[users[i].full_name],
                           TextChars[last.kwargs[1].value.text])
                ELSE Holds(Lower(TextChars[users[i].full_name]),
                           Lower(TextChars[last.kwargs[1].value.text]))}

\* The columns of the row a query fetches: those of every table it selects.
FetchedColumns(query) ==
    UNION {TableColumns[query.tables[i]] : i \in DOMAIN query.tables}

\* The columns relationship fields are kept in.
RelationshipColumns == {"user_id", "profile_id"}

\* C33: the record made from a fetched row keeps every column of the row
\* that is neither the name of a declared field nor the column of a
\* relationship field, under the column's own name.
C33_UnknownColumnsKept ==
    (last.op = "filter_get" /\ last.result = "ok" /\ last.selected # {}) =>
        \A c \in FetchedColumns(last.query) :
            (c \notin EntityFields[last.cls] /\ c \notin RelationshipColumns)
                => c \in DOMAIN last.record
----------------------------------------------------------------------------
(* Two filtered reads on User.objects, as tasks of the event loop:         *)
(* q = User.objects.filter(F) and then await q.all().  User.objects is the *)
(* one QuerySet object of the class (ModelMetaClass.__init__), filter      *)
(* returns it, and all() runs without interruption up to its await on the  *)
(* store and clears self.queryset when the store has answered.             *)

\* The filters of the two callers.
TaskFilters ==
    {filter("full_name", n) : n \in Names}
    \cup {filter("email", e) : e \in Emails}

\* A task that has not built its query.
NoRead == [pc |-> "idle", F |-> NoFilter, sql |-> NoFilter, result |-> {}]

\* The variables the concurrent reads leave alone.
notInShared ==
    <<users, nextId, related, redis, rec, origin, info, last, now>>

\* Two users in the store, nothing pending, no read built.
InitShared ==
    /\ users = UsersAfterCreate(
                   UsersAfterCreate(<<>>, 1,
                       [full_name |-> "Abiola", email |-> "j@o.com"], 1),
                   2, [full_name |-> "Shola", email |-> "k@o.com"], 1)
    /\ nextId = 3
    /\ profiles = <<>>
    /\ nextProfile = 1
    /\ phones = <<>>
    /\ nextPhone = 1
    /\ qs = NoFilter
    /\ redis = <<>>
    /\ rec = NoRec
    /\ origin = "none"
    /\ info = NoInfo
    /\ now = 2
    /\ last = Done("init", "ok", FALSE, NoKey, FALSE)
    /\ tasks = [t \in Tasks |-> NoRead]

\* q = User.objects.filter(F): the query is put on the shared query set.
BuildFilter(t, F) ==
    /\ tasks[t].pc = "idle"
    /\ qs' = F
    /\ tasks' = [tasks EXCEPT ![t] = [NoRead EXCEPT !.pc = "built", !.F = F]]
    /\ UNCHANGED notInShared

\* q.all() up to `await self.database.fetch_all(queryset)`: the query sent
\* is the one on the query set at that moment.
StartAll(t) ==
    /\ tasks[t].pc = "built"
    /\ tasks' = [tasks EXCEPT ![t].pc = "fetching", ![t].sql = qs]
    /\ UNCHANGED qs
    /\ UNCHANGED notInShared

\* The store answers; all() clears self.queryset and returns the records.
FetchReply(t) ==
    /\ tasks[t].pc = "fetching"
    /\ tasks' = [tasks EXCEPT ![t].pc = "returned",
                              ![t].result = Selected(users, tasks[t].sql)]
    /\ qs' = NoFilter
    /\ UNCHANGED notInShared

NextShared ==
    \/ \E t \in Tasks, F \in TaskFilters : BuildFilter(t, F)
    \/ \E t \in Tasks : StartAll(t)
    \/ \E t \in Tasks : FetchReply(t)

SpecShared == InitShared /\ [][NextShared]_vars

\* C21: of two filtered reads on User built and then run concurrently, each
\* returns the rows its own filter selects, and the filter a read has built
\* is the one pending until the read sends its query.
C21_EachReadsOwnFilter ==
    \A t \in Tasks :
        /\ tasks[t].pc = "built" => qs = tasks[t].F
        /\ tasks[t].pc = "returned"
            => tasks[t].result = Selected(users, tasks[t].F)

----------------------------------------------------------------------------
(* The query set object of an entity as the chainable calls leave it:      *)
(* filter, order_by and using store into it, a read takes what is pending  *)
(* and clears it.                                                          *)

\* self.queryset is None.
NoQuery ==
    [set |-> FALSE, tables |-> <<>>, select_from |-> <<>>, where |-> <<>>,
     order_by |-> <<>>]

\* QuerySet.__init__: nothing pending, the alias "default".
NewQuerySet == [queryset |-> NoQuery, _using |-> "default"]

\* self.table.select()
table_select(cls) ==
    [set |-> TRUE, tables |-> <<EntityTable[cls]>>,
     select_from |-> <<EntityTable[cls]>>, where |-> <<>>,
     order_by |-> <<>>]

\* QuerySet.get_queryset
get_queryset(self, cls) ==
    IF self.queryset.set THEN self.queryset ELSE table_select(cls)

\* The select expression filter builds, as the query a query set holds.
AsQuery(query) ==
    [set |-> TRUE, tables |-> query.tables,
     select_from |-> query.select_from, where |-> query.where,
     order_by |-> <<>>]

\* A variant of filter that adds its clauses to the pending query.
filter_where(self, cls, kwargs) ==
    LET compiled == compile_filter(cls, kwargs)
        q == get_queryset(self, cls)
    IN  IF compiled.error # "" THEN self
        ELSE [self EXCEPT !.queryset =
                [q EXCEPT !.where = q.where \o compiled.query.where]]

\* QuerySet.filter: self.queryset = self.build_select_expression(...), and
\* self as it was when the compilation raises.
filter_self(self, cls, kwargs) ==
    LET compiled == compile_filter(cls, kwargs)
    IN  IF compiled.error # "" THEN self
        ELSE [self EXCEPT !.queryset = AsQuery(compiled.query)]

\* QuerySet.order_by
order_by(self, cls, args) ==
    LET q == get_queryset(self, cls)
    IN  [self EXCEPT !.queryset = [q EXCEPT !.order_by = q.order_by \o args]]

\* QuerySet.using
using(self, key) == [self EXCEPT !._using = key]

\* A keyword whose value is a record of a related entity, kept by the
\* decimal text of its identity.
RecordKw(parts, _id) ==
    [key |-> parts,
     value |-> [type |-> "record", text |-> NumToText(_id), map |-> NoMap]]

\* The filters, orderings and aliases of the caller.
BuildKwargs ==
    [User |->
        {<<Kw(<<"full_name">>, "str", "Abiola")>>,
         <<Kw(<<"full_name", "icontains">>, "str", "ola")>>,
         <<Kw(<<"nickname">>, "str", "ola")>>},
     PhoneNumber |->
        {<<Kw(<<"user", "full_name">>, "str", "Abiola"),
           Kw(<<"number">>, "str", TestNumber)>>,
         <<Kw(<<"number">>, "str", TestNumber)>>,
         <<RecordKw(<<"user">>, 1)>>},
     Profile |->
        {<<Kw(<<"addresses", "name", "icontains">>, "str", "sun"),
           Kw(<<"user", "email">>, "str", "j@o.com")>>,
         <<Kw(<<"addresses", "has_key">>, "str", "name")>>},
     Contact |->
        {<<Kw(<<"user", "email">>, "str", "j@o.com"),
           Kw(<<"profile", "id">>, "str", "1"),
           Kw(<<"user", "full_name">>, "str", "Abiola")>>,
         <<Kw(<<"profile", "id">>, "str", "1")>>,
         <<Kw(<<"profile", "user", "email">>, "str", "j@o.com")>>}]

Orderings == {<<"id">>, <<"-id">>}

Aliases == {"default", "replica"}

\* What is kept of a call on cls.objects: its name, the entity, the
\* keywords of a filter, how it ended, and the query set as it was before.
DoneBuild(op, cls, kwargs, result) ==
    [op |-> op, cls |-> cls, kwargs |-> kwargs, result |-> result,
     before |-> qs[cls]]

notInBuild ==
    <<users, nextId, related, redis, rec, origin, info, tasks>>

InitBuild ==
    /\ users = <<>>
    /\ nextId = 1
    /\ profiles = <<>>
    /\ nextProfile = 1
    /\ phones = <<>>
    /\ nextPhone = 1
    /\ qs = [cls \in DOMAIN EntityTable |-> NewQuerySet]
    /\ redis = <<>>
    /\ rec = NoRec
    /\ origin = "none"
    /\ info = NoInfo
    /\ now = 1
    /\ last = DoneBuild("init", "User", <<>>, "ok")
    /\ tasks = NoTasks

\* cls.objects.filter(**kwargs)
Filter(cls, kwargs) ==
    /\ now <= MaxClock
    /\ qs' = [qs EXCEPT ![cls] = filter_self(qs[cls], cls, kwargs)]
    /\ last' = DoneBuild("filter", cls, kwargs,
                   IF compile_filter(cls, kwargs).error = "" THEN "ok"
                   ELSE compile_filter(cls, kwargs).error)
    /\ now' = now + 1
    /\ UNCHANGED notInBuild

\* cls.objects.order_by(*args)
OrderBy(cls, args) ==
    /\ now <= MaxClock
    /\ qs' = [qs EXCEPT ![cls] = order_by(qs[cls], cls, args)]
    /\ last' = DoneBuild("order_by", cls, <<>>, "ok")
    /\ now' = now + 1
    /\ UNCHANGED notInBuild

\* cls.objects.using(key)
Using(cls, key) ==
    /\ now <= MaxClock
    /\ qs' = [qs EXCEPT ![cls] = using(qs[cls], key)]
    /\ last' = DoneBuild("using", cls, <<>>, "ok")
    /\ now' = now + 1
    /\ UNCHANGED notInBuild

\* await cls.objects.all(): the pending query is fetched and cleared.
ReadAll(cls) ==
    /\ now <= MaxClock
    /\ qs' = [qs EXCEPT ![cls].queryset = NoQuery]
    /\ last' = DoneBuild("all", cls, <<>>, "ok")
    /\ now' = now + 1
    /\ UNCHANGED notInBuild

\* await cls.objects.delete(): the alias is put back to "default" before
\* the statement is executed, and the pending query is cleared after it.
QueryDelete(cls) ==
    /\ now <= MaxClock
    /\ qs' = [qs EXCEPT ![cls] = [queryset |-> NoQuery, _using |-> "default"]]
    /\ last' = DoneBuild("delete", cls, <<>>, "ok")
    /\ now' = now + 1
    /\ UNCHANGED notInBuild

NextBuild ==
    \/ \E cls \in DOMAIN BuildKwargs :
            \E kwargs \in BuildKwargs[cls] : Filter(cls, kwargs)
    \/ \E cls \in DOMAIN BuildKwargs, args \in Orderings : OrderBy(cls, args)
    \/ \E cls \in DOMAIN BuildKwargs, key \in Aliases : Using(cls, key)
    \/ \E cls \in DOMAIN BuildKwargs : ReadAll(cls)
    \/ \E cls \in DOMAIN BuildKwargs : QueryDelete(cls)

SpecBuild == InitBuild /\ [][NextBuild]_vars

\* C24: the query filter(F) builds depends on F alone: the tables, the
\* joins and the predicates are those compiled from F, and nothing of a
\* filter or an ordering pending before, or of the alias, is in it.
C24_QueryFromFilterAlone ==
    last.op = "filter" /\ last.result = "ok"
        => qs[last.cls].queryset
            = AsQuery(build_select_expression(last.cls,
                    compile_filter(last.cls, last.kwargs).query.where,
                    compile_filter(last.cls, last.kwargs).select_related))

\* A filter has been built on a query set that held a filtered and ordered
\* query.
C24_Witness ==
    /\ last.op = "filter"
    /\ last.result = "ok"
    /\ last.before.queryset.where # <<>>
    /\ last.before.queryset.order_by # <<>>

\* C27: a filter whose keywords refer to two or more distinct relationship
\* paths of the entity builds a query whose FROM joins the tables of every
\* one of the paths, in the order the paths were first met; the join of an
\* earlier path is still there after a later path.
C27_JoinForEveryPath ==
    (/\ last.op = "filter"
     /\ last.result = "ok"
     /\ Len(compile_filter(last.cls, last.kwargs).select_related) >= 2)
        => qs[last.cls].queryset.select_from
            = <<EntityTable[last.cls]>>
              \o AllPathTables(last.cls,
                    compile_filter(last.cls, last.kwargs).select_related)

\* Whether every part of a path is a relationship field of the entity the
\* parts before it lead to.
RECURSIVE RelationshipChain(_, _)
RelationshipChain(cls, path) ==
    \/ path = <<>>
    \/ /\ Head(path) \in EntityFields[cls]
       /\ is_related_field(cls, Head(path))
       /\ RelationshipChain(get_related_field_class(cls, Head(path)),
                            Tail(path))

\* C28: a filter with one keyword r1__r2__field, r1 and r2 relationships
\* one after the other, compiles: its predicate is on the column field of
\* the entity r1 then r2 lead to, and its FROM joins root, r1 and r2 in
\* that order.
C28_ChainedPathCompiles ==
    (/\ last.op = "filter"
     /\ Len(last.kwargs) = 1
     /\ Len(RelatedParts(last.kwargs[1].key)) >= 2
     /\ RelationshipChain(last.cls, RelatedParts(last.kwargs[1].key)))
        => /\ last.result = "ok"
           /\ qs[last.cls].queryset.where[1].table
                = EntityTable[WalkRelated(last.cls,
                                    RelatedParts(last.kwargs[1].key))]
           /\ qs[last.cls].queryset.where[1].column
                = FieldName(last.kwargs[1].key)
           /\ qs[last.cls].queryset.select_from
                = <<EntityTable[last.cls]>>
                  \o PathTables(last.cls, RelatedParts(last.kwargs[1].key))

\* C31: when the last part of a key names an operator, one of
\* contained_by, has_all, has_any and has_key included, the filter takes it
\* as the operator and the part before it as the field: the clause is on
\* that field, and the operator's name is neither its column nor its
\* sub-key.
C31_LastPartIsOperator ==
    (/\ last.op = "filter"
     /\ last.result = "ok"
     /\ Len(last.kwargs) = 1
     /\ Len(last.kwargs[1].key) > 1
     /\ Last(last.kwargs[1].key) \in FILTER_OPERATORS \cup JSON_OPERATORS)
        => LET parts == last.kwargs[1].key
               clause == qs[last.cls].queryset.where[1]
           IN  /\ clause.column = parts[Len(parts) - 1]
               /\ clause.key # Last(parts)

\* C32: a filter whose value is a related record, filter(user=record),
\* compiles to a comparison of the relationship's column with the identity
\* of the record.
C32_RecordComparedByIdentity ==
    (/\ last.op = "filter"
     /\ Len(last.kwargs) = 1
     /\ last.kwargs[1].value.type = "record"
     /\ Len(last.kwargs[1].key) = 1
     /\ is_related_field(last.cls, last.kwargs[1].key[1]))
        => /\ last.result = "ok"
           /\ qs[last.cls].queryset.where[1].column = "user_id"
           /\ qs[last.cls].queryset.where[1].value.text
                = last.kwargs[1].value.text


\* C38: using(alias) selects the store for the operation it is chained to
\* only: once a terminal operation (all, delete) has returned, the query
\* set of the class points at "default" again, so that the next operation
\* written without using() runs against "default".
C38_AliasForOneOperation ==
    last.op \in {"all", "delete"} => qs[last.cls]._using = "default"
----------------------------------------------------------------------------
(* Base.update_passed_values for any field: the entry of table_config and  *)
(* the value passed are inputs, written as Python literals; "default()"    *)
(* and "onupdate()" are what the two callables return.                     *)

\* The key is not among the keywords.
Absent == "<absent>"

\* The values a caller passes.
PassedValues == {"None", "False", "True", "0", "5", "''", "'a'"}

\* table_config[o].get("default"): no entry, a constant, a callable.
ConfigDefaults == {"None", "True", "'x'", "7", "<callable>"}

\* table_config[o].get("onupdate"): no entry or a callable.
ConfigOnupdates == {"None", "<callable>"}

\* not v
PyFalsy(v) == v \in {"None", "False", "0", "''"}

\* a or b
PyOr(a, b) == IF PyFalsy(a) THEN b ELSE a

\* clean_values.get(key)
PyGet(passed) == IF passed = Absent THEN "None" ELSE passed

\* get_default_values(o, passed_value), for an entry of table_config with
\* the given default and onupdate.
get_default_values_for(default, onupdate, passed_value) ==
    IF ~PyFalsy(onupdate) THEN "onupdate()"
    ELSE IF default = "<callable>" THEN PyOr(passed_value, "default()")
    ELSE IF passed_value \in {"False", "0"} THEN passed_value
    ELSE PyOr(passed_value, default)

\* update_kwargs_for_creation, the value new_kwargs has under a key:
\* {**new_kwargs, **missing_kwargs}, where missing_kwargs has the keys whose
\* entry has a default or an onupdate.
new_kwargs_value(default, onupdate, passed) ==
    IF ~PyFalsy(default) \/ ~PyFalsy(onupdate)
    THEN get_default_values_for(default, onupdate, PyGet(passed))
    ELSE passed

notInInject ==
    <<users, nextId, related, qs, redis, rec, origin, info, now, tasks>>

\* A field, its entry in table_config, and what the caller passes for it.
InitInject ==
    /\ users = <<>>
    /\ nextId = 1
    /\ profiles = <<>>
    /\ nextProfile = 1
    /\ phones = <<>>
    /\ nextPhone = 1
    /\ qs = NoFilter
    /\ redis = <<>>
    /\ rec = NoRec
    /\ origin = "none"
    /\ info = NoInfo
    /\ now = 1
    /\ \E default \in ConfigDefaults, onupdate \in ConfigOnupdates,
          passed \in PassedValues \cup {Absent} :
            last = [op |-> "init", default |-> default,
                    onupdate |-> onupdate, passed |-> passed,
                    value |-> Absent]
    /\ tasks = NoTasks

\* cls.objects.create(**kwargs) and cls.objects.quick_create(**kwargs), up
\* to the keywords the record is built from.
CreationKwargs(op) ==
    /\ last.op = "init"
    /\ last' = [last EXCEPT !.op = op,
                    !.value = new_kwargs_value(last.default, last.onupdate,
                                               last.passed)]
    /\ UNCHANGED notInInject

NextInject == \E op \in {"create", "quick_create"} : CreationKwargs(op)

SpecInject == InitInject /\ [][NextInject]_vars

\* C25: on create() and quick_create() a field gets the value of its
\* onupdate callable when it has one; otherwise the value the caller
\* passed, whenever one was passed, False, 0 and the empty string included;
\* otherwise its default, a callable default being called.
C25_InjectionPrecedence ==
    last.op \in {"create", "quick_create"}
        => last.value =
            IF last.onupdate = "<callable>" THEN "onupdate()"
            ELSE IF last.passed \notin {Absent, "None"} THEN last.passed
            ELSE IF last.default = "<callable>" THEN "default()"
            ELSE IF last.default = "None" THEN last.passed
            ELSE last.default

----------------------------------------------------------------------------
(* The read-cache tier of a derived entity whose Config names any of its   *)
(* fields as cache_field: an entity with the fields full_name and email,   *)
(* cache_key "user_info", whose get_data(key) returns the user having key  *)
(* in the cache_field.  The configured cache_field is kept in tasks.       *)

\* Config.cache_field of the derived entity.
CacheFields == {"email", "full_name"}

\* CacheQuerySet.cache_key(obj), obj a text: the key itself.
cache_key_str(obj) == cache_key(InfoCacheKey, obj)

\* CacheQuerySet.cache_key(obj), obj a mapping: value = obj.get("email").
cache_key_dict(obj, cache_field) == cache_key(InfoCacheKey, obj.email)

\* CacheQuerySet.cache_key(obj), obj an instance:
\* getattr(obj, config.cache_field).
cache_key_instance(obj, cache_field) ==
    cache_key(InfoCacheKey, obj[cache_field])

\* get_data(key) of the derived entity: the mappings it may return, one for
\* each user with key in the cache_field; none when it raises.
get_data_by(rows, cache_field, key) ==
    {[full_name |-> rows[i].full_name, email |-> rows[i].email] :
        i \in {j \in DOMAIN rows : rows[j][cache_field] = key}}

\* No instance of the derived entity.
NoEntry == [full_name |-> "", email |-> ""]

\* What is kept of a call on the read-cache tier: its name, how it ended,
\* the key given, and whether the entry was found.
DoneKeyed(op, result, key, hit) ==
    [op |-> op, result |-> result, key |-> key, hit |-> hit]

notInKeyed == <<users, nextId, related, qs, rec, origin, tasks>>

\* Two users in the store, nothing in the key-value store.
InitKeyed ==
    /\ \E n \in Names :
        users = UsersAfterCreate(
                    UsersAfterCreate(<<>>, 1,
                        [full_name |-> "Abiola", email |-> "j@o.com"], 1),
                    2, [full_name |-> n, email |-> "k@o.com"], 1)
    /\ nextId = 3
    /\ profiles = <<>>
    /\ nextProfile = 1
    /\ phones = <<>>
    /\ nextPhone = 1
    /\ qs = NoFilter
    /\ redis = <<>>
    /\ rec = NoRec
    /\ origin = "none"
    /\ info = NoEntry
    /\ now = 1
    /\ last = DoneKeyed("init", "ok", "", FALSE)
    /\ \E cache_field \in CacheFields : tasks = [cache_field |-> cache_field]

\* record = Entity.objects.get(key, connection=conn): CacheQuerySet.get.
\* On a miss the mapping get_data returns is saved (save_to_cache) under
\* cache_key(result).
KeyedGet(key) ==
    /\ now <= MaxClock
    /\ LET _cache_key == cache_key_str(key)
       IN  IF exists(redis, _cache_key)
           THEN /\ info' = redis[_cache_key]
                /\ last' = DoneKeyed("get", "ok", key, TRUE)
                /\ UNCHANGED redis
           ELSE IF get_data_by(users, tasks.cache_field, key) = {}
           THEN /\ last' = DoneKeyed("get", "AttributeError", key, FALSE)
                /\ UNCHANGED <<redis, info>>
           ELSE \E result \in get_data_by(users, tasks.cache_field, key) :
                /\ redis' = hmset_dict(redis,
                                cache_key_dict(result, tasks.cache_field),
                                result)
                /\ info' = result
                /\ last' = DoneKeyed("get", "ok", key, FALSE)
    /\ now' = now + 1
    /\ UNCHANGED notInKeyed

\* record.update_cache(conn): save_to_cache of the instance, under
\* cache_key(instance).
KeyedUpdateCache ==
    /\ now <= MaxClock
    /\ info # NoEntry
    /\ redis' = hmset_dict(redis,
                           cache_key_instance(info, tasks.cache_field), info)
    /\ last' = DoneKeyed("update_cache", "ok", info[tasks.cache_field], FALSE)
    /\ now' = now + 1
    /\ UNCHANGED <<info>>
    /\ UNCHANGED notInKeyed

NextKeyed ==
    \/ \E key \in Names \cup Emails : KeyedGet(key)
    \/ KeyedUpdateCache

SpecKeyed == InitKeyed /\ [][NextKeyed]_vars

\* C34: whatever field is configured as cache_field, the entry written on
\* a miss of get(key) is under the key that get(key) looked up, so that
\* the next get(key) finds it.
C34_MissStoresUnderLookedUpKey ==
    (last.op = "get" /\ last.result = "ok" /\ ~last.hit)
        => exists(redis, cache_key_str(last.key))


\* ---------------------------------------------------------------------
\* Materializing a row whose relationship column points at a row of the
\* same class.  Category is an entity declared the way Profile is, with
\* a name and one relationship, parent: Category (column parent_id, 0
\* for NULL).
\* Its rows are kept in `profiles` and its next identity in `nextProfile`.
\* ---------------------------------------------------------------------

\* The depth of nested calls at which the interpreter raises
\* RecursionError.
RecursionLimit == 5

\* QuerySet.get(id=value) at nesting `depth`: fetch_one, and for a row
\* found as_klass -> as_dict, which awaits Category.objects.get(id=
\* row.parent_id) for the relationship column before the record is built.
\* No row found: get returns None and the nesting ends.
RECURSIVE get_nested(_, _, _)
get_nested(rows, value, depth) ==
    IF depth > RecursionLimit
    THEN [result |-> "RecursionError", lookups |-> depth - 1]
    ELSE IF value \notin DOMAIN rows
    THEN [result |-> "ok", lookups |-> depth]
    ELSE get_nested(rows, rows[value].parent_id, depth + 1)

DoneHydrate(op, id, out) ==
    [op |-> op, id |-> id, result |-> out.result, lookups |-> out.lookups]

notInHydrate ==
    <<users, nextId, phones, nextPhone, qs, redis, rec, origin, info, tasks>>

InitHydrate ==
    /\ users = <<>>
    /\ nextId = 1
    /\ profiles = <<>>
    /\ nextProfile = 1
    /\ phones = <<>>
    /\ nextPhone = 1
    /\ qs = NoFilter
    /\ redis = <<>>
    /\ rec = NoRec
    /\ origin = "none"
    /\ info = NoInfo
    /\ now = 1
    /\ last = DoneHydrate("init", 0, [result |-> "ok", lookups |-> 0])
    /\ tasks = NoTasks

\* await Category.objects.create(name=name, parent=<a stored Category or None>)
CreateCategory(name, parent) ==
    /\ now <= MaxClock
    /\ nextProfile <= MaxId + 1
    /\ parent \in {0} \cup DOMAIN profiles
    /\ profiles' = PutRow(profiles, nextProfile,
                       [id |-> nextProfile, name |-> name,
                        parent_id |-> parent])
    /\ nextProfile' = nextProfile + 1
    /\ last' = DoneHydrate("create", nextProfile,
                   [result |-> "ok", lookups |-> 0])
    /\ now' = now + 1
    /\ UNCHANGED notInHydrate

\* category.parent = <a stored Category or None>; await category.save()
SaveCategory(id, parent) ==
    /\ now <= MaxClock
    /\ id \in DOMAIN profiles
    /\ parent \in {0} \cup DOMAIN profiles
    /\ profiles' = [profiles EXCEPT ![id].parent_id = parent]
    /\ last' = DoneHydrate("save", id, [result |-> "ok", lookups |-> 0])
    /\ now' = now + 1
    /\ UNCHANGED <<nextProfile, notInHydrate>>

\* await Category.objects.get(id=id)
GetCategory(id) ==
    /\ now <= MaxClock
    /\ last' = DoneHydrate("get", id, get_nested(profiles, id, 1))
    /\ now' = now + 1
    /\ UNCHANGED <<profiles, nextProfile, notInHydrate>>

NextHydrate ==
    \/ \E name \in Names, parent \in 0..(MaxId + 1) :
            CreateCategory(name, parent)
    \/ \E id \in 1..(MaxId + 1), parent \in 0..(MaxId + 1) :
            SaveCategory(id, parent)
    \/ \E id \in 1..(MaxId + 1) : GetCategory(id)

SpecHydrate == InitHydrate /\ [][NextHydrate]_vars

\* C39: materializing a fetched row ends with a record whatever the
\* store holds, rows that reference each other in a cycle included: the
\* nested lookups are at most one per stored row plus the one that finds
\* nothing, and the interpreter never has to stop them.
C39_MaterializingTerminates ==
    last.op = "get"
        => /\ last.result = "ok"
           /\ last.lookups <= Cardinality(DOMAIN profiles) + 1
====
